---- MODULE Spec2Model ----
(***************************************************************************)
(* Call orchestration and scheduling of the SD voice AI service.           *)
(*                                                                         *)
(* The model follows src/src/services/call_orchestrator.py one store or    *)
(* gateway operation per step: every `await` on Redis, on Supabase or on   *)
(* the LiveKit API is a suspension point, so each of them is one atomic    *)
(* action and the operations of different callers interleave between them. *)
(* Callers are the Scheduler Worker (workers/call_scheduler.py), the REST  *)
(* and CLI clients (api/calls.py, scripts/make_call.py), the voice session *)
(* reporting an outcome (agent.py) and the data processor                  *)
(* (workers/data_processor.py).                                            *)
(***************************************************************************)
EXTENDS Integers, Sequences, FiniteSets, TLC

\* ---------------------------------------------------------------- bounds
MaxCalls == 2          \* call records that can be created
MaxConcurrent == 1     \* settings.max_concurrent_calls
MaxRetry == 1          \* settings.max_retry_attempts is 0 or MaxRetry
MaxClock == 3          \* how far the passage of time is followed
MaxUpdates == 2        \* rows of the data_updates table
MaxFields == 1         \* fields extracted from one transcript

\* ------------------------------------------------------------- processes
Workers == {"w1"}
WorkersTwo == {"w1", "w2"}
Clients == {"c1"}
Sessions == {"s1"}
SessionsTwo == {"s1", "s2"}
Processors == {"dp"}
Reviewers == {"r1"}
Procs == WorkersTwo \cup Clients \cup SessionsTwo \cup Processors

\* ---------------------------------------------------------- value spaces
Digits == <<"0", "1", "2", "3", "4", "5", "6", "7", "8", "9", "10", "11">>
ToStr(n) == Digits[n + 1]
ParseInt(s) == CHOOSE n \in 0..(Len(Digits) - 1) : ToStr(n) = s

CallIds == {"c" \o ToStr(n) : n \in 1..MaxCalls}
\* Redis orders members of equal score lexicographically
Rank(id) == CHOOSE n \in 1..MaxCalls : id = "c" \o ToStr(n)

\* rows of the specialists table at the start: phone number per specialist id
SpecialistPhone == [sp_ok |-> "+15551234567", sp_nophone |-> ""]
\* the ids the store gives the rows scripts/make_call.py --phone inserts
NewSpecialistIds == {"sp_new1"}
\* scripts/make_call.py --phone
CliPhone == "+15550001111"
SpecialistIds == {"sp_ok", "sp_nophone", "sp_missing"}
Priorities == {0, 10}
\* ScheduleCallRequest.priority is any float: the negative ones included
AcceptedPriorities == {-5, 0, 10}
Transcripts == {"", "t1"}
\* the reasons of call_failed: its default "" and a reason given
Reasons == {"", "no_answer"}
\* str(e) of the exception dispatch_call catches: the message of the error,
\* which is empty for an exception raised without one (asyncio.TimeoutError())
ErrorMessages == {"gateway_error", ""}

\* confidence thresholds of the extraction, in hundredths
HIGH_CONFIDENCE_THRESHOLD == 85
REVIEW_THRESHOLD == 70
\* the confidences the LLM gives: one in every band the thresholds make
Confidences == {30, 50, 80, 90}
UpdateIds == {"u" \o ToStr(n) : n \in 1..MaxUpdates}
UpdateRank(u) == CHOOSE n \in 1..MaxUpdates : u = "u" \o ToStr(n)
FieldNames == {"phone"}
NewValues == {"v1", "v2"}
\* list values, as JSON, and their items
ListValues == {"[\"a\"]", "[\"a\", \"b\"]"}
Items(v) == IF v = "[\"a\"]" THEN {"a"} ELSE {"a", "b"}
\* what the LLM gives as the value of a field: a scalar, a list or null
ExtractedValues == NewValues \cup ListValues \cup {"null"}

\* Settings.max_retry_attempts: Field(default=3)
DEFAULT_MAX_RETRY_ATTEMPTS == 3

\* the two sleeps of the Worker loop, in tenths of a second
POLL_INTERVAL == 50
DISPATCH_INTERVAL == 15

QUEUED == "queued"
DISPATCHED == "dispatched"
COMPLETED == "completed"
FAILED == "failed"

VARIABLES
  settings,     \* the operational limits read from the environment
  db_calls,     \* Supabase table verification_calls: id -> row
  call_state,   \* Redis hashes calls:state:{id}: id -> field -> string
  queue,        \* Redis sorted set calls:queue: member -> score
  active,       \* Redis set calls:active
  rooms,        \* LiveKit rooms created by the gateway
  clock,        \* the store's now()
  failures,     \* history: how many times _handle_failure was entered per call
  delays,       \* history: the backoff delays _handle_failure logged per call
  running,      \* _running of every Worker and of the data processor
  closed,       \* whether stop() has closed the Worker's Redis connection
  data_updates, \* Supabase table data_updates: id -> row
  current_data, \* Supabase table specialists: id of every row -> current_data
  review,       \* position and locals of every reviewer's approve_update
  processing,   \* locals of the data processor's pipeline
  pc,           \* position of every process
  loc           \* locals of the operation a process is running

vars == <<settings, db_calls, call_state, queue, active, rooms, clock,
          failures, delays, running, closed, data_updates, current_data, review,
          processing, pc, loc>>

\* ------------------------------------------------------- store primitives
EmptyHash == [k \in {} |-> ""]
HSet(h, updates) ==
  [k \in DOMAIN h \cup DOMAIN updates |->
     IF k \in DOMAIN updates THEN updates[k] ELSE h[k]]
HGet(h, k, default) == IF k \in DOMAIN h THEN h[k] ELSE default

EmptyQueue == [k \in {} |-> 0]
ZAdd(q, member, score) ==
  [k \in DOMAIN q \cup {member} |-> IF k = member THEN score ELSE q[k]]
\* the pop taken from the wrong end: zpopmin
ZMin(q) ==
  CHOOSE m \in DOMAIN q :
    \A n \in DOMAIN q : q[n] > q[m] \/ (q[n] = q[m] /\ Rank(n) >= Rank(m))

\* zpopmax: the greatest score, the lexicographically greatest member among ties
ZMax(q) ==
  CHOOSE m \in DOMAIN q :
    \A n \in DOMAIN q : q[n] < q[m] \/ (q[n] = q[m] /\ Rank(n) <= Rank(m))
ZRem(q, member) == [k \in DOMAIN q \ {member} |-> q[k]]

NoRow == [status |-> "none", specialist_id |-> "", direction |-> "",
          created_at |-> 0,
          retry_count |-> 0, transcript |-> "null", ended_at |-> 0,
          failure_reason |-> "null", livekit_room_id |-> "null"]

\* db.update_call_status: UPDATE ... WHERE id = call_id (no row, no change)
UpdateCallStatus(db, id, updates) ==
  IF id \in CallIds /\ db[id].status # "none"
  THEN [db EXCEPT ![id] =
          [f \in DOMAIN @ |-> IF f \in DOMAIN updates THEN updates[f] ELSE @[f]]]
  ELSE db

\* the row of a specialist in the specialists table, or None
NoSpecialist == [found |-> FALSE, phone |-> ""]
SpecialistRow(sid) ==
  IF sid \in DOMAIN current_data
  THEN [found |-> TRUE,
        phone |-> IF sid \in DOMAIN SpecialistPhone
                  THEN SpecialistPhone[sid] ELSE CliPhone]
  ELSE NoSpecialist

\* db.get_specialist, what it can return: the row, or None when there is no
\* row and also when the select raises, the exception being swallowed
GetSpecialist(sid) == {SpecialistRow(sid), NoSpecialist}

\* one room name for every call
RoomNameShared(id) == "verify-room"

\* room_name = f"verify-{call_id}"
RoomName(id) == "verify-" \o id

StateOf(id) == IF id \in CallIds THEN call_state[id] ELSE EmptyHash

\* _update_state: hset of status and, when non-empty, failure_reason
UpdateState(cs, id, status, failure_reason) ==
  [cs EXCEPT ![id] =
     HSet(@, IF failure_reason # ""
             THEN [status |-> status, failure_reason |-> failure_reason]
             ELSE [status |-> status])]

\* ------------------------------------------------------------ process state
\* a data_updates row that does not exist
NoUpdate == [status |-> "none", call_id |-> "", specialist_id |-> "",
             field_name |-> "", new_value |-> "null"]

\* the rows of data_updates that do not exist yet
FreeUpdateIds == {u \in UpdateIds : data_updates[u].status = "none"}

\* INSERT INTO data_updates: the store gives the row the next id
InsertDataUpdate(du, row) ==
  LET u == CHOOSE v \in FreeUpdateIds :
             \A w \in FreeUpdateIds : UpdateRank(v) <= UpdateRank(w)
  IN  [du EXCEPT ![u] = row]

\* the pipeline of the data processor with nothing read yet
NoProcessing == [found |-> FALSE, existing_data |-> EmptyHash,
                 auto_fields |-> << >>, review_fields |-> << >>,
                 current_data |-> EmptyHash]

\* UPDATE data_updates ... WHERE id = update_id (no row, no change)
UpdateDataUpdate(du, u, updates) ==
  IF u \in UpdateIds /\ du[u].status # "none"
  THEN [du EXCEPT ![u] =
          [f \in DOMAIN @ |-> IF f \in DOMAIN updates THEN updates[f] ELSE @[f]]]
  ELSE du

\* a reviewer with no approve_update under way
NoReview == [pc |-> "idle", id |-> "", update |-> NoUpdate,
             current_data |-> EmptyHash]

NoLoc == [id |-> "", specialist_id |-> "", priority |-> 0, metadata |-> "",
          path |-> "", active_count |-> 0, retry_count |-> 0, reason |-> "",
          transcript |-> "", op |-> "", ret |-> "", slept |-> 0,
          delay |-> 0]

\* every iteration slept the same, short interval
SleepIntervalAlwaysShort(result) == DISPATCH_INTERVAL - 5

\* the sleep the loop takes after an iteration: DISPATCH_INTERVAL when
\* _poll_and_dispatch returned True, POLL_INTERVAL when it returned False or
\* raised
SleepInterval(result) ==
  IF result \in {"dispatched", "dispatch_failed"}
  THEN DISPATCH_INTERVAL ELSE POLL_INTERVAL

\* the Worker's locals while it sleeps after an iteration
IterationEnd(result) ==
  [NoLoc EXCEPT !.ret = result, !.slept = SleepInterval(result)]

\* the stores, the workers and every caller before the first request
InitStores ==
  /\ db_calls = [id \in CallIds |-> NoRow]
  /\ call_state = [id \in CallIds |-> EmptyHash]
  /\ queue = EmptyQueue
  /\ active = {}
  /\ rooms = {}
  /\ clock = 1
  /\ failures = [id \in CallIds |-> 0]
  /\ delays = [id \in CallIds |-> << >>]
  /\ running = [w \in WorkersTwo \cup Processors |-> TRUE]
  /\ closed = [w \in WorkersTwo |-> FALSE]
  /\ data_updates = [u \in UpdateIds |-> NoUpdate]
  /\ current_data = [sid \in DOMAIN SpecialistPhone |-> EmptyHash]
  /\ review = [r \in Reviewers |-> NoReview]
  /\ processing = [d \in Processors |-> NoProcessing]
  /\ pc = [p \in Procs |-> IF p \in WorkersTwo THEN "poll" ELSE "idle"]
  /\ loc = [p \in Procs |-> NoLoc]

Init ==
  /\ settings \in [max_concurrent_calls : {MaxConcurrent},
                   max_retry_attempts : {0, MaxRetry}]
  /\ InitStores

\* the same with max_retry_attempts left at its default
InitDefaultRetries ==
  /\ settings \in [max_concurrent_calls : {MaxConcurrent},
                   max_retry_attempts : {DEFAULT_MAX_RETRY_ATTEMPTS}]
  /\ InitStores

\* where a finished operation leaves its caller: the Worker's loop goes to
\* its sleep knowing what the iteration did, every other caller is done
Return(p, result) ==
  /\ pc' = [pc EXCEPT ![p] = IF p \in WorkersTwo THEN "sleep"
                             ELSE IF p \in SessionsTwo THEN "done" ELSE "idle"]
  /\ loc' = [loc EXCEPT ![p] = IF p \in WorkersTwo
                                THEN IterationEnd(result)
                                ELSE NoLoc]

\* --------------------------------------------------------- schedule_call
\* the result of create_call_record not checked: the call is mirrored and
\* queued although no record was created
ScheduleCreateUnchecked(p, path, sid, prio, meta) ==
  /\ pc[p] = "idle"
  /\ \E id \in CallIds :
       /\ db_calls[id].status = "none"
       /\ \/ db_calls' = [db_calls EXCEPT ![id] =
                            [NoRow EXCEPT !.status = QUEUED,
                                          !.specialist_id = sid,
                                          !.direction = "outbound",
                                          !.created_at = clock]]
          \/ db_calls' = db_calls
       /\ pc' = [pc EXCEPT ![p] = "s_hset"]
       /\ loc' = [loc EXCEPT ![p] =
                    [NoLoc EXCEPT !.id = id, !.specialist_id = sid,
                                  !.priority = prio, !.metadata = meta,
                                  !.path = path, !.op = "schedule_call"]]
  /\ UNCHANGED <<settings, data_updates, current_data, review, processing, running, closed, failures, delays, call_state, queue, active, rooms, clock>>

\* db.create_call_record, the first store request of schedule_call, made by
\* a caller at position at
ScheduleCreateFrom(p, at, path, sid, prio, meta) ==
  /\ pc[p] = at
  /\ \/ \E id \in CallIds :
          /\ db_calls[id].status = "none"
          /\ db_calls' = [db_calls EXCEPT ![id] =
                            [NoRow EXCEPT !.status = QUEUED,
                                          !.specialist_id = sid,
                                          !.direction = "outbound",
                                          !.created_at = clock]]
          /\ pc' = [pc EXCEPT ![p] = "s_hset"]
          /\ loc' = [loc EXCEPT ![p] =
                       [NoLoc EXCEPT !.id = id, !.specialist_id = sid,
                                     !.priority = prio, !.metadata = meta,
                                     !.path = path, !.op = "schedule_call"]]
     \/ \* the insert failed: create_call_record returns None, RuntimeError
        /\ db_calls' = db_calls
        /\ pc' = [pc EXCEPT ![p] = "idle"]
        /\ loc' = [loc EXCEPT ![p] = [NoLoc EXCEPT !.op = "schedule_call",
                                                   !.ret = "RuntimeError"]]
  /\ UNCHANGED <<settings, data_updates, current_data, review, processing, running, closed, failures, delays, call_state, queue, active, rooms, clock>>

\* schedule_call entered from POST /calls/schedule
ScheduleCreate(p, path, sid, prio, meta) ==
  ScheduleCreateFrom(p, "idle", path, sid, prio, meta)

ClientSchedule(p) ==
  \E sid \in SpecialistIds, prio \in Priorities :
    ScheduleCreate(p, "schedule", sid, prio, "{}")

\* POST /calls/schedule with the default priority of the request model, for
\* a specialist that is on record, with or without a phone number
ClientScheduleDefault(p) ==
  \E sid \in {"sp_ok", "sp_nophone"} :
    ScheduleCreate(p, "schedule", sid, 0, "{}")

\* POST /calls/schedule with any priority the request model accepts
ClientScheduleAny(p) ==
  \E sid \in SpecialistIds, prio \in AcceptedPriorities :
    ScheduleCreate(p, "schedule", sid, prio, "{}")

\* POST /calls/initiate/{specialist_id}: priority 10.0, then dispatch_call
ClientInitiate(p) ==
  \E sid \in SpecialistIds : ScheduleCreate(p, "dispatch", sid, 10, "{}")

\* scripts/make_call.py --priority: 1.0 when the option is not given
CliPriorities == {1, 10}

\* json.dumps of the metadata scripts/make_call.py passes
CliMetadata == "{\"source\": \"cli\"}"

\* scripts/make_call.py: schedule with --priority and the metadata of the
\* script, then dispatch_call
MakeCallWithId(p) ==
  \E sid \in SpecialistIds, prio \in CliPriorities :
    ScheduleCreate(p, "dispatch", sid, prio, CliMetadata)

\* scripts/make_call.py --phone: a specialist row is inserted for the
\* number; an insert that fails ends the script with nothing changed
MakeCallInsertSpecialist(p) ==
  /\ pc[p] = "idle"
  /\ \E sid \in NewSpecialistIds \ DOMAIN current_data, prio \in CliPriorities :
       /\ current_data' = [k \in DOMAIN current_data \cup {sid} |->
                             IF k = sid THEN EmptyHash ELSE current_data[k]]
       /\ loc' = [loc EXCEPT ![p] =
                    [NoLoc EXCEPT !.specialist_id = sid, !.priority = prio]]
  /\ pc' = [pc EXCEPT ![p] = "m_schedule"]
  /\ UNCHANGED <<settings, data_updates, review, processing, running, closed,
                 failures, delays, db_calls, call_state, queue, active, rooms, clock>>

\* scripts/make_call.py --phone: the call is scheduled for the new row
MakeCallSchedule(p) ==
  ScheduleCreateFrom(p, "m_schedule", "dispatch", loc[p].specialist_id,
                     loc[p].priority, CliMetadata)

ClientMakeCall(p) ==
  \/ MakeCallWithId(p)
  \/ MakeCallInsertSpecialist(p)
  \/ MakeCallSchedule(p)

\* the mapping written with a status other than QUEUED
CallDataDispatched(call_id, specialist_id, metadata) ==
  [call_id |-> call_id, specialist_id |-> specialist_id, status |-> DISPATCHED,
   scheduled_at |-> "ts", retry_count |-> ToStr(0), metadata |-> metadata]

\* the call_data mapping schedule_call stores in Redis
CallData(call_id, specialist_id, metadata) ==
  [call_id |-> call_id, specialist_id |-> specialist_id, status |-> QUEUED,
   scheduled_at |-> "ts", retry_count |-> ToStr(0), metadata |-> metadata]

ScheduleHSet(p) ==
  /\ pc[p] = "s_hset"
  /\ call_state' = [call_state EXCEPT ![loc[p].id] =
        HSet(@, CallData(loc[p].id, loc[p].specialist_id, loc[p].metadata))]
  /\ pc' = [pc EXCEPT ![p] = "s_zadd"]
  /\ UNCHANGED <<settings, data_updates, current_data, review, processing, running, closed, failures, delays, db_calls, queue, active, rooms, clock, loc>>

ScheduleZAdd(p) ==
  /\ pc[p] = "s_zadd"
  /\ queue' = ZAdd(queue, loc[p].id, loc[p].priority)
  /\ IF loc[p].path = "schedule"
     THEN Return(p, "scheduled")
     ELSE /\ pc' = [pc EXCEPT ![p] = "d_load"]
          /\ loc' = [loc EXCEPT ![p] = [NoLoc EXCEPT !.id = loc[p].id,
                                                     !.op = "dispatch_call"]]
  /\ UNCHANGED <<settings, data_updates, current_data, review, processing, running, closed, failures, delays, db_calls, call_state, active, rooms, clock>>

\* --------------------------------------------------------- get_next_call
\* the count read from the wrong key: the queue's cardinality
ActiveCountWrongKey == Cardinality(DOMAIN queue)

\* scard(calls:active)
ActiveCount == Cardinality(active)

\* the limit compared with > instead of >=
GateClosedOffByOne(active_count) == active_count > settings.max_concurrent_calls

\* the concurrency limit check of get_next_call
GateClosed(active_count) == active_count >= settings.max_concurrent_calls

\* the count taken with a command that also removes a member (spop)
GetNextSpop(w) ==
  /\ pc[w] = "poll"
  /\ LET active_count == ActiveCount IN
       IF GateClosed(active_count)
       THEN /\ pc' = [pc EXCEPT ![w] = "sleep"]
            /\ loc' = [loc EXCEPT ![w] = IterationEnd("limit")]
       ELSE /\ pc' = [pc EXCEPT ![w] = "g_pop"]
            /\ loc' = [loc EXCEPT ![w] =
                         [NoLoc EXCEPT !.op = "get_next_call",
                                       !.active_count = active_count]]
  /\ active' = IF active = {} THEN active
               ELSE active \ {CHOOSE id \in active : TRUE}
  /\ UNCHANGED <<settings, data_updates, current_data, review, processing, running, closed, failures, delays, db_calls, call_state,
                 queue, rooms, clock>>

\* the Worker's loop calls _poll_and_dispatch, which starts with get_next_call
GetNextScard(w) ==
  /\ pc[w] = "poll"
  /\ LET active_count == ActiveCount IN
       IF GateClosed(active_count)
       THEN /\ pc' = [pc EXCEPT ![w] = "sleep"]
            /\ loc' = [loc EXCEPT ![w] = IterationEnd("limit")]
       ELSE /\ pc' = [pc EXCEPT ![w] = "g_pop"]
            /\ loc' = [loc EXCEPT ![w] =
                         [NoLoc EXCEPT !.op = "get_next_call",
                                       !.active_count = active_count]]
  /\ UNCHANGED <<settings, data_updates, current_data, review, processing, running, closed, failures, delays, db_calls, call_state,
                 queue, active, rooms, clock>>

\* a requeued retry at the head of the queue held back as not yet due
GetNextPopDeferRetries(w) ==
  /\ pc[w] = "g_pop"
  /\ IF DOMAIN queue = {} \/ queue[ZMax(queue)] < 0
     THEN /\ queue' = queue
          /\ pc' = [pc EXCEPT ![w] = "sleep"]
          /\ loc' = [loc EXCEPT ![w] = IterationEnd("empty")]
     ELSE /\ queue' = ZRem(queue, ZMax(queue))
          /\ pc' = [pc EXCEPT ![w] = "g_load"]
          /\ loc' = [loc EXCEPT ![w] = [NoLoc EXCEPT !.id = ZMax(queue),
                                                     !.priority = queue[ZMax(queue)],
                                                     !.op = "get_next_call"]]
  /\ UNCHANGED <<settings, data_updates, current_data, review, processing, running, closed, failures, delays, db_calls, call_state, active, rooms, clock>>

\* zpopmax(calls:queue, count=1)
GetNextPop(w) ==
  /\ pc[w] = "g_pop"
  /\ IF DOMAIN queue = {}
     THEN /\ queue' = queue
          /\ pc' = [pc EXCEPT ![w] = "sleep"]
          /\ loc' = [loc EXCEPT ![w] = IterationEnd("empty")]
     ELSE /\ queue' = ZRem(queue, ZMax(queue))
          /\ pc' = [pc EXCEPT ![w] = "g_load"]
          /\ loc' = [loc EXCEPT ![w] = [NoLoc EXCEPT !.id = ZMax(queue),
                                                     !.priority = queue[ZMax(queue)],
                                                     !.op = "get_next_call"]]
  /\ UNCHANGED <<settings, data_updates, current_data, review, processing, running, closed, failures, delays, db_calls, call_state, active, rooms, clock>>

\* hgetall of the popped call; _poll_and_dispatch then takes call_data["call_id"]
GetNextLoad(w) ==
  /\ pc[w] = "g_load"
  /\ LET call_data == StateOf(loc[w].id) IN
       IF DOMAIN call_data = {}
       THEN /\ pc' = [pc EXCEPT ![w] = "sleep"]
            /\ loc' = [loc EXCEPT ![w] = IterationEnd("missing")]
       ELSE /\ pc' = [pc EXCEPT ![w] = "d_load"]
            /\ loc' = [loc EXCEPT ![w] =
                         [NoLoc EXCEPT !.id = HGet(call_data, "call_id", ""),
                                       !.op = "dispatch_call"]]
  /\ UNCHANGED <<settings, data_updates, current_data, review, processing, running, closed, failures, delays, db_calls, call_state,
                 queue, active, rooms, clock>>

\* the loop going on to the next iteration whatever _running says
SleepIgnoringStop(w) ==
  /\ pc[w] = "sleep"
  /\ pc' = [pc EXCEPT ![w] = "poll"]
  /\ loc' = [loc EXCEPT ![w] = NoLoc]
  /\ UNCHANGED <<settings, data_updates, current_data, review, processing, running, closed, failures, delays, db_calls, call_state,
                 queue, active, rooms, clock>>

\* the loop's asyncio.sleep returns and `while self._running` is evaluated:
\* the next iteration starts with get_next_call, or the loop exits
Sleep(w) ==
  /\ pc[w] = "sleep"
  /\ pc' = [pc EXCEPT ![w] = IF running[w] THEN "poll" ELSE "stopped"]
  /\ loc' = [loc EXCEPT ![w] = NoLoc]
  /\ UNCHANGED <<settings, data_updates, current_data, review, processing, running, closed, failures, delays, db_calls, call_state,
                 queue, active, rooms, clock>>

\* --------------------------------------------------------- dispatch_call
DispatchLoad(p) ==
  /\ pc[p] = "d_load"
  /\ LET call_data == StateOf(loc[p].id) IN
       IF DOMAIN call_data = {}
       THEN Return(p, "dispatch_failed")
       ELSE IF "specialist_id" \notin DOMAIN call_data
       THEN Return(p, "error")
       ELSE /\ pc' = [pc EXCEPT ![p] = "d_spec"]
            /\ loc' = [loc EXCEPT ![p].specialist_id = call_data["specialist_id"]]
  /\ UNCHANGED <<settings, data_updates, current_data, review, processing, running, closed, failures, delays, db_calls, call_state,
                 queue, active, rooms, clock>>

\* db.get_specialist and the phone check
DispatchGetSpecialist(p) ==
  /\ pc[p] = "d_spec"
  /\ \E specialist \in GetSpecialist(loc[p].specialist_id) :
       IF ~specialist.found
       THEN /\ pc' = [pc EXCEPT ![p] = "d_invalid"]
            /\ loc' = [loc EXCEPT ![p].reason = "Specialist not found",
                                  ![p].specialist_id = ""]
       ELSE IF specialist.phone = ""
       THEN /\ pc' = [pc EXCEPT ![p] = "d_invalid"]
            /\ loc' = [loc EXCEPT ![p].reason = "No phone number",
                                  ![p].specialist_id = ""]
       ELSE /\ pc' = [pc EXCEPT ![p] = "d_room"]
            /\ loc' = [loc EXCEPT ![p].specialist_id = ""]
  /\ UNCHANGED <<settings, data_updates, current_data, review, processing, running, closed, failures, delays, db_calls, call_state,
                 queue, active, rooms, clock>>

\* the missing destination treated as a retryable failure
DispatchInvalidRetried(p) ==
  /\ pc[p] = "d_invalid"
  /\ pc' = [pc EXCEPT ![p] = "h_load"]
  /\ UNCHANGED <<settings, data_updates, current_data, review, processing, running, closed, failures, delays, db_calls, call_state, queue, active, rooms,
                 clock, loc>>

\* _update_state(call_id, FAILED, failure_reason=...) and return False
DispatchInvalid(p) ==
  /\ pc[p] = "d_invalid"
  /\ call_state' = UpdateState(call_state, loc[p].id, FAILED, loc[p].reason)
  /\ Return(p, "dispatch_failed")
  /\ UNCHANGED <<settings, data_updates, current_data, review, processing, running, closed, failures, delays, db_calls, queue, active, rooms, clock>>

\* api.room.create_room; an exception goes to _handle_failure(call_id, str(e))
DispatchCreateRoom(p) ==
  /\ pc[p] = "d_room"
  /\ \/ /\ rooms' = rooms \cup {RoomName(loc[p].id)}
        /\ pc' = [pc EXCEPT ![p] = "d_sip"]
        /\ loc' = loc
     \/ /\ rooms' = rooms
        /\ pc' = [pc EXCEPT ![p] = "h_load"]
        /\ \E e \in ErrorMessages : loc' = [loc EXCEPT ![p].reason = e]
  /\ UNCHANGED <<settings, data_updates, current_data, review, processing, running, closed, failures, delays, db_calls, call_state, queue, active, clock>>

\* a refused dial reported as a failed dispatch without the retry procedure
DispatchCreateSipNoRetry(p) ==
  /\ pc[p] = "d_sip"
  /\ \/ /\ pc' = [pc EXCEPT ![p] = "d_status"]
        /\ loc' = loc
     \/ Return(p, "dispatch_failed")
  /\ UNCHANGED <<settings, data_updates, current_data, review, processing, running, closed, failures, delays, db_calls, call_state,
                 queue, active, rooms, clock>>

\* api.sip.create_sip_participant: dials the phone
DispatchCreateSip(p) ==
  /\ pc[p] = "d_sip"
  /\ \/ /\ pc' = [pc EXCEPT ![p] = "d_status"]
        /\ loc' = loc
     \/ /\ pc' = [pc EXCEPT ![p] = "h_load"]
        /\ \E e \in ErrorMessages : loc' = [loc EXCEPT ![p].reason = e]
  /\ UNCHANGED <<settings, data_updates, current_data, review, processing, running, closed, failures, delays, db_calls, call_state,
                 queue, active, rooms, clock>>

\* _update_state(call_id, DISPATCHED)
DispatchSetStatus(p) ==
  /\ pc[p] = "d_status"
  /\ call_state' = UpdateState(call_state, loc[p].id, DISPATCHED, "")
  /\ pc' = [pc EXCEPT ![p] = "d_sadd"]
  /\ UNCHANGED <<settings, data_updates, current_data, review, processing, running, closed, failures, delays, db_calls, queue, active, rooms, clock, loc>>

\* the dispatched call never added to the active set
DispatchSAddSkipped(p) ==
  /\ pc[p] = "d_sadd"
  /\ active' = active
  /\ pc' = [pc EXCEPT ![p] = "d_hroom"]
  /\ UNCHANGED <<settings, data_updates, current_data, review, processing, running, closed, failures, delays, db_calls, call_state, queue, rooms, clock, loc>>

\* sadd(calls:active, call_id)
DispatchSAdd(p) ==
  /\ pc[p] = "d_sadd"
  /\ active' = active \cup {loc[p].id}
  /\ pc' = [pc EXCEPT ![p] = "d_hroom"]
  /\ UNCHANGED <<settings, data_updates, current_data, review, processing, running, closed, failures, delays, db_calls, call_state, queue, rooms, clock, loc>>

\* hset(calls:state:{id}, "livekit_room", room_name)
DispatchSetRoom(p) ==
  /\ pc[p] = "d_hroom"
  /\ call_state' = [call_state EXCEPT ![loc[p].id] =
                      HSet(@, [livekit_room |-> RoomName(loc[p].id)])]
  /\ pc' = [pc EXCEPT ![p] = "d_db"]
  /\ UNCHANGED <<settings, data_updates, current_data, review, processing, running, closed, failures, delays, db_calls, queue, active, rooms, clock, loc>>

\* db.update_call_status(call_id, "dispatched", {livekit_room_id}); return True
DispatchDbUpdate(p) ==
  /\ pc[p] = "d_db"
  /\ db_calls' = UpdateCallStatus(db_calls, loc[p].id,
                   [status |-> DISPATCHED,
                    livekit_room_id |-> RoomName(loc[p].id)])
  /\ Return(p, "dispatched")
  /\ UNCHANGED <<settings, data_updates, current_data, review, processing, running, closed, failures, delays, call_state, queue, active, rooms, clock>>

\* -------------------------------------------------------- _handle_failure
\* which of the two branches _handle_failure takes
RetriesRemain(retry_count) == retry_count < settings.max_retry_attempts

\* what the caller of _handle_failure returns
FailureResult(p) ==
  IF loc[p].op = "dispatch_call" THEN "dispatch_failed" ELSE "failed"

FailureLoad(p) ==
  /\ pc[p] = "h_load"
  /\ LET state == StateOf(loc[p].id)
         retry_count == ParseInt(HGet(state, "retry_count", ToStr(0)))
     IN /\ pc' = [pc EXCEPT ![p] = IF RetriesRemain(retry_count)
                                   THEN "h_requeue" ELSE "h_failed"]
        /\ loc' = [loc EXCEPT ![p].retry_count = retry_count]
  /\ failures' = [id \in CallIds |->
                    IF id = loc[p].id THEN failures[id] + 1 ELSE failures[id]]
  /\ UNCHANGED <<delays, settings, data_updates, current_data, review, processing, running, closed, db_calls, call_state, queue, active, rooms, clock>>

\* b to the power n
RECURSIVE Pow(_, _)
Pow(b, n) == IF n = 0 THEN 1 ELSE b * Pow(b, n - 1)

\* the delay taken from the count after its increment
BackoffDelayAfterIncrement(retry_count) == 30 * Pow(4, retry_count + 1)

\* delay = 30 * (4 ** retry_count), in seconds, taken before the increment
BackoffDelay(retry_count) == 30 * Pow(4, retry_count)

\* retry: hset of retry_count + 1, status QUEUED and last_failure
FailureRequeueHSet(p) ==
  /\ pc[p] = "h_requeue"
  /\ call_state' = [call_state EXCEPT ![loc[p].id] =
        HSet(@, [retry_count |-> ToStr(loc[p].retry_count + 1),
                 status |-> QUEUED,
                 last_failure |-> loc[p].reason])]
  /\ pc' = [pc EXCEPT ![p] = "h_zadd"]
  /\ loc' = [loc EXCEPT ![p].retry_count = loc[p].retry_count + 1,
                         ![p].delay = BackoffDelay(loc[p].retry_count)]
  /\ UNCHANGED <<settings, data_updates, current_data, review, processing, running, closed, failures, delays, db_calls, queue, active, rooms, clock>>

\* the retry requeued with the count itself as its score
RetryScoreUnsigned(retry_count) == retry_count

\* the score of a requeued retry
RetryScore(retry_count) == -retry_count

\* retry: zadd(calls:queue, {call_id: -retry_count}), then the log
\* call_retry_scheduled(retry, delay_seconds) once the zadd has returned
FailureZAdd(p) ==
  /\ pc[p] = "h_zadd"
  /\ queue' = ZAdd(queue, loc[p].id, RetryScore(loc[p].retry_count))
  /\ delays' = [delays EXCEPT ![loc[p].id] = Append(@, loc[p].delay)]
  /\ Return(p, FailureResult(p))
  /\ UNCHANGED <<settings, data_updates, current_data, review, processing, running, closed, failures, db_calls, call_state, active, rooms, clock>>

\* retries exhausted: _update_state(call_id, FAILED, failure_reason=reason)
FailureTerminalHSet(p) ==
  /\ pc[p] = "h_failed"
  /\ call_state' = UpdateState(call_state, loc[p].id, FAILED, loc[p].reason)
  /\ pc' = [pc EXCEPT ![p] = "h_db"]
  /\ UNCHANGED <<settings, data_updates, current_data, review, processing, running, closed, failures, delays, db_calls, queue, active, rooms, clock, loc>>

\* retries exhausted: db.update_call_status(call_id, "failed", {...})
FailureDbUpdate(p) ==
  /\ pc[p] = "h_db"
  /\ db_calls' = UpdateCallStatus(db_calls, loc[p].id,
                   [status |-> FAILED,
                    failure_reason |-> loc[p].reason,
                    retry_count |-> loc[p].retry_count])
  /\ Return(p, FailureResult(p))
  /\ UNCHANGED <<settings, data_updates, current_data, review, processing, running, closed, failures, delays, call_state, queue, active, rooms, clock>>

\* the same with db.update_call_status failing inside: _handle_failure
\* returns normally with the record left as it was
FailureDbUpdateLost(p) ==
  /\ pc[p] = "h_db"
  /\ Return(p, FailureResult(p))
  /\ UNCHANGED <<settings, data_updates, current_data, review, processing, running, closed, failures, delays, db_calls, call_state, queue,
                 active, rooms, clock>>

\* db.update_call_status raises inside (Supabase unreachable): it logs,
\* returns None, and dispatch_call goes on to return True
DispatchDbUpdateLost(p) ==
  /\ pc[p] = "d_db"
  /\ Return(p, "dispatched")
  /\ UNCHANGED <<settings, data_updates, current_data, review, processing, running, closed, failures, delays, db_calls, call_state,
                 queue, active, rooms, clock>>

\* -------------------------------------------------------- outcome signals
\* agent.py derives the call id from the room it was dispatched into
CallIdOfRoom(room) == CHOOSE id \in CallIds : RoomName(id) = room

\* call_completed: _update_state(call_id, COMPLETED)
CallCompletedHSet(s) ==
  /\ pc[s] = "idle"
  /\ \E room \in rooms, transcript \in Transcripts :
       /\ call_state' = UpdateState(call_state, CallIdOfRoom(room), COMPLETED, "")
       /\ loc' = [loc EXCEPT ![s] =
                    [NoLoc EXCEPT !.id = CallIdOfRoom(room),
                                  !.transcript = transcript,
                                  !.op = "call_completed"]]
  /\ pc' = [pc EXCEPT ![s] = "c_srem"]
  /\ UNCHANGED <<settings, data_updates, current_data, review, processing, running, closed, failures, delays, db_calls, queue, active, rooms, clock>>

\* call_completed: srem(calls:active, call_id)
CallCompletedSRem(s) ==
  /\ pc[s] = "c_srem"
  /\ active' = active \ {loc[s].id}
  /\ pc' = [pc EXCEPT ![s] = "c_db"]
  /\ UNCHANGED <<settings, data_updates, current_data, review, processing, running, closed, failures, delays, db_calls, call_state, queue, rooms, clock, loc>>

\* call_completed: db.update_call_status(call_id, "completed", {ended_at, transcript})
CallCompletedDb(s) ==
  /\ pc[s] = "c_db"
  /\ db_calls' = UpdateCallStatus(db_calls, loc[s].id,
                   [status |-> COMPLETED,
                    ended_at |-> clock,
                    transcript |-> loc[s].transcript])
  /\ clock' = clock + 1
  /\ Return(s, "completed")
  /\ UNCHANGED <<settings, data_updates, current_data, review, processing, running, closed, failures, delays, call_state, queue, active, rooms>>

\* the same with db.update_call_status failing inside: call_completed
\* returns normally
CallCompletedDbLost(s) ==
  /\ pc[s] = "c_db"
  /\ Return(s, "completed")
  /\ UNCHANGED <<settings, data_updates, current_data, review, processing, running, closed, failures, delays, db_calls, call_state,
                 queue, active, rooms, clock>>

\* call_failed: srem(calls:active, call_id), then _handle_failure
CallFailedSRem(s) ==
  /\ pc[s] = "idle"
  /\ \E room \in rooms, reason \in Reasons :
       /\ active' = active \ {CallIdOfRoom(room)}
       /\ loc' = [loc EXCEPT ![s] =
                    [NoLoc EXCEPT !.id = CallIdOfRoom(room),
                                  !.reason = reason,
                                  !.op = "call_failed"]]
  /\ pc' = [pc EXCEPT ![s] = "h_load"]
  /\ UNCHANGED <<settings, data_updates, current_data, review, processing, running, closed, failures, delays, db_calls, call_state, queue, rooms, clock>>

\* ---------------------------------------------------------- data processor
\* the select of _process_completed_calls: completed, transcript not null,
\* retry_count >= 0, oldest ended_at first
Processable(id) ==
  /\ db_calls[id].status = COMPLETED
  /\ db_calls[id].transcript # "null"
  /\ db_calls[id].retry_count >= 0

\* the fields the LLM returns for a transcript: none (also when the request
\* fails) or up to MaxFields of them
ExtractedFields ==
  [field_name : FieldNames, value : ExtractedValues, confidence : Confidences,
   conflict : BOOLEAN]
Extractions == UNION {[1..n -> ExtractedFields] : n \in 0..MaxFields}

\* detect_conflict: the specialist has another value for the field
DetectConflict(field, existing_data) ==
  /\ field.field_name \in DOMAIN existing_data
  /\ LET existing_value == existing_data[field.field_name]
     IN  /\ existing_value # "null"
         /\ IF existing_value \in ListValues /\ field.value \in ListValues
            THEN Items(existing_value) \ Items(field.value) # {}
            ELSE existing_value # field.value

\* extract_from_transcript: with existing data, a conflicting field is
\* marked CONFLICT and its confidence lowered by 0.1
WithConflicts(fields, existing_data) ==
  IF existing_data = EmptyHash
  THEN fields
  ELSE [i \in DOMAIN fields |->
          IF DetectConflict(fields[i], existing_data)
          THEN [fields[i] EXCEPT
                  !.conflict = TRUE,
                  !.confidence = IF @ >= 10 THEN @ - 10 ELSE 0]
          ELSE fields[i]]

IsToApply(f) == f.confidence >= HIGH_CONFIDENCE_THRESHOLD /\ ~f.conflict
IsNeedingReview(f) == f.confidence < REVIEW_THRESHOLD \/ f.conflict

\* fields_to_apply and fields_needing_review
FieldsToApply(fields) == SelectSeq(fields, IsToApply)
FieldsNeedingReview(fields) == SelectSeq(fields, IsNeedingReview)

\* what the rows written for the fields keep of them: name and value
Columns(fields) ==
  [i \in DOMAIN fields |->
     [field_name |-> fields[i].field_name, value |-> fields[i].value]]

\* where the pipeline goes with what is left of the two lists
AfterFields(auto_fields, review_fields) ==
  IF auto_fields # << >> THEN "p_auto_insert"
  ELSE IF review_fields # << >> THEN "p_queue"
  ELSE "p_update"

\* _process_completed_calls returns to the loop of start(), which sleeps
ProcessReturn(d) ==
  /\ pc' = [pc EXCEPT ![d] = "p_sleep"]
  /\ loc' = [loc EXCEPT ![d] = NoLoc]

ProcessSelect(d) ==
  /\ pc[d] = "idle"
  /\ IF \A id \in CallIds : ~Processable(id)
     THEN ProcessReturn(d)
     ELSE \E id \in CallIds :
            /\ Processable(id)
            /\ \A other \in CallIds :
                 Processable(other) =>
                   db_calls[id].ended_at <= db_calls[other].ended_at
            /\ IF db_calls[id].transcript = ""
               THEN ProcessReturn(d)
               ELSE /\ pc' = [pc EXCEPT ![d] = "p_existing"]
                    /\ loc' = [loc EXCEPT ![d] =
                                 [NoLoc EXCEPT
                                    !.id = id,
                                    !.specialist_id = db_calls[id].specialist_id,
                                    !.transcript = db_calls[id].transcript]]
  /\ UNCHANGED <<settings, data_updates, current_data, review, processing,
                 running, closed, failures, delays, db_calls, call_state, queue,
                 active, rooms, clock>>

\* the select of the data_updates of the call: a call that has some is only
\* marked processed
ProcessCheckExisting(d) ==
  /\ pc[d] = "p_existing"
  /\ pc' = [pc EXCEPT ![d] =
              IF \E u \in UpdateIds :
                   /\ data_updates[u].status # "none"
                   /\ data_updates[u].call_id = loc[d].id
              THEN "p_mark_existing" ELSE "p_spec"]
  /\ UNCHANGED <<settings, data_updates, current_data, review, processing,
                 running, closed, failures, delays, db_calls, call_state, queue,
                 active, rooms, clock, loc>>

\* update_call_status(id, "completed", {retry_count: -1}) of a call that
\* already has data_updates
ProcessMarkExisting(d) ==
  /\ pc[d] = "p_mark_existing"
  /\ db_calls' = UpdateCallStatus(db_calls, loc[d].id,
                   [status |-> COMPLETED, retry_count |-> -1])
  /\ processing' = [processing EXCEPT ![d] = NoProcessing]
  /\ ProcessReturn(d)
  /\ UNCHANGED <<settings, data_updates, current_data, review, running,
                 closed, failures, delays, call_state, queue, active, rooms, clock>>

\* the same with db.update_call_status failing inside: True is returned
\* with the record left as it was
ProcessMarkExistingLost(d) ==
  /\ pc[d] = "p_mark_existing"
  /\ ProcessReturn(d)
  /\ UNCHANGED <<settings, data_updates, current_data, review, processing,
                 running, closed, failures, delays, db_calls, call_state, queue,
                 active, rooms, clock>>

\* db.get_specialist: the existing data of the specialist, {} when it
\* returns None
ProcessGetSpecialist(d) ==
  /\ pc[d] = "p_spec"
  /\ \E specialist \in GetSpecialist(loc[d].specialist_id) :
       processing' = [processing EXCEPT ![d] =
         [NoProcessing EXCEPT
            !.found = specialist.found,
            !.existing_data = IF specialist.found
                              THEN current_data[loc[d].specialist_id]
                              ELSE EmptyHash]]
  /\ pc' = [pc EXCEPT ![d] = "p_extract"]
  /\ UNCHANGED <<settings, data_updates, current_data, review, running,
                 closed, failures, delays, db_calls, call_state, queue, active, rooms,
                 clock, loc>>

\* extract_from_transcript and the two lists made of its fields; the store
\* has a row left for every field
ProcessExtract(d) ==
  /\ pc[d] = "p_extract"
  /\ \E raw \in Extractions :
       /\ Len(raw) <= Cardinality(FreeUpdateIds)
       /\ LET fields == WithConflicts(raw, processing[d].existing_data)
          IN  /\ processing' = [processing EXCEPT
                   ![d].auto_fields = Columns(FieldsToApply(fields)),
                   ![d].review_fields = Columns(FieldsNeedingReview(fields))]
              /\ pc' = [pc EXCEPT ![d] =
                          AfterFields(FieldsToApply(fields),
                                      FieldsNeedingReview(fields))]
  /\ UNCHANGED <<settings, data_updates, current_data, review, running,
                 closed, failures, delays, db_calls, call_state, queue, active, rooms,
                 clock, loc>>

\* auto_apply_update has raised: the exception is logged, None returned and
\* the pipeline goes on with the fields that are left
AutoApplyRaised(d) ==
  /\ processing' = [processing EXCEPT ![d].auto_fields = Tail(@),
                                      ![d].current_data = EmptyHash]
  /\ pc' = [pc EXCEPT ![d] =
              AfterFields(Tail(processing[d].auto_fields),
                          processing[d].review_fields)]

\* auto_apply_update: the row is inserted as approved; an insert that raises
\* leaves no row
AutoApplyInsert(d) ==
  /\ pc[d] = "p_auto_insert"
  /\ \/ /\ FreeUpdateIds # {}
        /\ LET f == Head(processing[d].auto_fields)
           IN  data_updates' = InsertDataUpdate(data_updates,
                 [status |-> "approved", call_id |-> loc[d].id,
                  specialist_id |-> loc[d].specialist_id,
                  field_name |-> f.field_name, new_value |-> f.value])
        /\ pc' = [pc EXCEPT ![d] = "p_auto_read"]
        /\ UNCHANGED processing
     \/ /\ AutoApplyRaised(d)
        /\ UNCHANGED data_updates
  /\ UNCHANGED <<settings, current_data, review, running, closed,
                 failures, delays, db_calls, call_state, queue, active, rooms, clock,
                 loc>>

\* auto_apply_update: the specialist's current_data is read and the field
\* set in the copy; without the specialist single() raises, and so can the
\* select of a specialist on record
AutoApplyReadSpecialist(d) ==
  /\ pc[d] = "p_auto_read"
  /\ LET f == Head(processing[d].auto_fields)
         sid == loc[d].specialist_id
     IN  \/ /\ SpecialistRow(sid).found
            /\ processing' = [processing EXCEPT ![d].current_data =
                  HSet(current_data[sid],
                       [k \in {f.field_name} |-> f.value])]
            /\ pc' = [pc EXCEPT ![d] = "p_auto_write"]
         \/ AutoApplyRaised(d)
  /\ UNCHANGED <<settings, data_updates, current_data, review, running,
                 closed, failures, delays, db_calls, call_state, queue, active, rooms,
                 clock, loc>>

\* auto_apply_update: the copy is written back to the specialist and the
\* audit entry logged; an update that raises leaves the specialist as it was
AutoApplyWriteSpecialist(d) ==
  /\ pc[d] = "p_auto_write"
  /\ \/ current_data' = [current_data EXCEPT ![loc[d].specialist_id] =
                            processing[d].current_data]
     \/ UNCHANGED current_data
  /\ AutoApplyRaised(d)
  /\ UNCHANGED <<settings, data_updates, review, running, closed, failures, delays,
                 db_calls, call_state, queue, active, rooms, clock, loc>>

\* queue_for_review of the next field needing review; an insert that
\* raises leaves no row and None is returned
ProcessQueueReview(d) ==
  /\ pc[d] = "p_queue"
  /\ \/ /\ FreeUpdateIds # {}
        /\ LET f == Head(processing[d].review_fields)
           IN  data_updates' = InsertDataUpdate(data_updates,
                 [status |-> "pending", call_id |-> loc[d].id,
                  specialist_id |-> loc[d].specialist_id,
                  field_name |-> f.field_name, new_value |-> f.value])
     \/ UNCHANGED data_updates
  /\ processing' = [processing EXCEPT ![d].review_fields = Tail(@)]
  /\ pc' = [pc EXCEPT ![d] =
              AfterFields(<< >>, Tail(processing[d].review_fields))]
  /\ UNCHANGED <<settings, current_data, review, running, closed, failures, delays,
                 db_calls, call_state, queue, active, rooms, clock, loc>>

\* the call is marked processed: update_call_status(id, "completed", {retry_count: -1})
ProcessMarkDone(d) ==
  /\ pc[d] = "p_update"
  /\ db_calls' = UpdateCallStatus(db_calls, loc[d].id,
                   [status |-> COMPLETED, retry_count |-> -1])
  /\ IF processing[d].found
     THEN /\ pc' = [pc EXCEPT ![d] = "p_verify"]
          /\ UNCHANGED <<loc, processing>>
     ELSE /\ processing' = [processing EXCEPT ![d] = NoProcessing]
          /\ ProcessReturn(d)
  /\ UNCHANGED <<settings, data_updates, current_data, review, running,
                 closed, failures, delays, call_state, queue, active, rooms, clock>>

\* the same with db.update_call_status failing inside: the error is logged
\* there and the pipeline goes on with the record left as it was
ProcessMarkDoneLost(d) ==
  /\ pc[d] = "p_update"
  /\ IF processing[d].found
     THEN /\ pc' = [pc EXCEPT ![d] = "p_verify"]
          /\ UNCHANGED <<loc, processing>>
     ELSE /\ processing' = [processing EXCEPT ![d] = NoProcessing]
          /\ ProcessReturn(d)
  /\ UNCHANGED <<settings, data_updates, current_data, review, running,
                 closed, failures, delays, db_calls, call_state, queue, active, rooms,
                 clock>>

\* db.update_specialist(is_verified, last_verified_at) of a specialist on
\* record, and the return of True
ProcessVerify(d) ==
  /\ pc[d] = "p_verify"
  /\ processing' = [processing EXCEPT ![d] = NoProcessing]
  /\ ProcessReturn(d)
  /\ UNCHANGED <<settings, data_updates, current_data, review, running,
                 closed, failures, delays, db_calls, call_state, queue, active, rooms,
                 clock>>

\* the select of the calls or of the data_updates raises: the exception is
\* logged and the call left as it was
ProcessError(d) ==
  /\ pc[d] \in {"idle", "p_existing"}
  /\ ProcessReturn(d)
  /\ UNCHANGED <<settings, data_updates, current_data, review, processing,
                 running, closed, failures, delays, db_calls, call_state, queue,
                 active, rooms, clock>>

\* start(): the asyncio.sleep after every _process_completed_calls,
\* POLL_INTERVAL after False or an exception, one second after True, and
\* `while self._running` evaluated when it returns
ProcessSleep(d) ==
  /\ pc[d] = "p_sleep"
  /\ pc' = [pc EXCEPT ![d] = IF running[d] THEN "idle" ELSE "stopped"]
  /\ UNCHANGED <<settings, data_updates, current_data, review, processing,
                 running, closed, failures, delays, db_calls, call_state, queue,
                 active, rooms, clock, loc>>

\* DataProcessorWorker.stop(): _running = False, wherever the loop is
ProcessorStop(d) ==
  /\ running[d]
  /\ running' = [running EXCEPT ![d] = FALSE]
  /\ UNCHANGED <<settings, data_updates, current_data, review, processing,
                 closed, failures, delays, db_calls, call_state, queue,
                 active, rooms, clock, pc, loc>>

\* --------------------------------------------------------- review queue
\* queue_for_review: a row of data_updates inserted with status "pending"
QueueForReview(call_id, specialist_id, field_name, new_value) ==
  /\ FreeUpdateIds # {}
  /\ data_updates' = InsertDataUpdate(data_updates,
       [status |-> "pending", call_id |-> call_id,
        specialist_id |-> specialist_id,
        field_name |-> field_name, new_value |-> new_value])
  /\ UNCHANGED <<settings, current_data, review, processing, db_calls,
                 call_state, queue, active, rooms, clock, failures, delays, running,
                 closed, pc, loc>>

\* approve_update: the row is fetched; no row (single() raises) or a status
\* other than "pending" returns None
ApproveFetch(r, u) ==
  /\ review[r].pc = "idle"
  /\ review' = [review EXCEPT ![r] =
                  IF data_updates[u].status # "pending"
                  THEN NoReview
                  ELSE [NoReview EXCEPT !.pc = "a_mark", !.id = u,
                                        !.update = data_updates[u]]]
  /\ UNCHANGED <<settings, data_updates, current_data, processing, db_calls,
                 call_state, queue, active, rooms, clock, failures, delays, running,
                 closed, pc, loc>>

\* approve_update: the row is marked approved; an update that raises ends
\* the function, which returns None
ApproveMark(r) ==
  /\ review[r].pc = "a_mark"
  /\ \/ /\ data_updates' = UpdateDataUpdate(data_updates, review[r].id,
                                            [status |-> "approved"])
        /\ review' = [review EXCEPT ![r].pc = "a_read"]
     \/ /\ UNCHANGED data_updates
        /\ review' = [review EXCEPT ![r] = NoReview]
  /\ UNCHANGED <<settings, current_data, processing, db_calls, call_state,
                 queue, active, rooms, clock, failures, delays, running, closed, pc,
                 loc>>

\* approve_update: the specialist's current_data is read and the field set
\* in the copy; without the specialist single() raises, and so can the
\* select of a specialist on record: the function returns None
ApproveReadSpecialist(r) ==
  /\ review[r].pc = "a_read"
  /\ LET sid == review[r].update.specialist_id
     IN  \/ /\ SpecialistRow(sid).found
            /\ review' = [review EXCEPT ![r] =
                  [@ EXCEPT
                     !.pc = "a_write",
                     !.current_data =
                        HSet(current_data[sid],
                             [f \in {review[r].update.field_name} |->
                                review[r].update.new_value])]]
         \/ review' = [review EXCEPT ![r] = NoReview]
  /\ UNCHANGED <<settings, data_updates, current_data, processing, db_calls,
                 call_state, queue, active, rooms, clock, failures, delays, running,
                 closed, pc, loc>>

\* approve_update: the copy is written back to the specialist, the audit
\* entry logged and the update returned; an update that raises leaves the
\* specialist as it was
ApproveWriteSpecialist(r) ==
  /\ review[r].pc = "a_write"
  /\ \/ current_data' = [current_data EXCEPT
                            ![review[r].update.specialist_id] =
                               review[r].current_data]
     \/ UNCHANGED current_data
  /\ review' = [review EXCEPT ![r] = NoReview]
  /\ UNCHANGED <<settings, data_updates, processing, db_calls, call_state,
                 queue, active, rooms, clock, failures, delays, running, closed, pc,
                 loc>>

\* reject_update: the row is marked rejected whatever its status, the audit
\* entry logged
RejectUpdate(r, u) ==
  /\ review[r].pc = "idle"
  /\ data_updates' = UpdateDataUpdate(data_updates, u, [status |-> "rejected"])
  /\ UNCHANGED <<settings, current_data, review, processing, db_calls,
                 call_state, queue, active, rooms, clock, failures, delays, running,
                 closed, pc, loc>>

ReviewerStep(r) ==
  \/ \E u \in UpdateIds : ApproveFetch(r, u)
  \/ ApproveMark(r)
  \/ ApproveReadSpecialist(r)
  \/ ApproveWriteSpecialist(r)
  \/ \E u \in UpdateIds : RejectUpdate(r, u)

\* ------------------------------------------------------- Worker shutdown
\* stop(): _running = False, wherever the loop is; the await of close() that
\* follows yields to the event loop
StopRequest(w) ==
  /\ running[w]
  /\ running' = [running EXCEPT ![w] = FALSE]
  /\ UNCHANGED <<settings, data_updates, current_data, review, processing, closed, failures, delays, db_calls, call_state, queue, active,
                 rooms, clock, pc, loc>>

\* stop(): the awaited close() of the orchestrator's Redis connection takes
\* effect, the loop having been free to run since _running was cleared
StopClose(w) ==
  /\ ~running[w]
  /\ ~closed[w]
  /\ closed' = [closed EXCEPT ![w] = TRUE]
  /\ UNCHANGED <<settings, data_updates, current_data, review, processing, running, failures, delays, db_calls, call_state, queue, active,
                 rooms, clock, pc, loc>>

Stop(w) ==
  \/ StopRequest(w)
  \/ StopClose(w)

\* the positions at which the Worker awaits a Redis command
RedisSteps ==
  {"poll", "g_pop", "g_load", "d_load", "d_invalid", "d_status", "d_sadd",
   "d_hroom", "h_load", "h_requeue", "h_zadd", "h_failed"}

\* the exception of a Redis command leaving start() instead of being caught
StoreErrorUncaught(w) ==
  /\ pc[w] \in RedisSteps
  /\ pc' = [pc EXCEPT ![w] = "stopped"]
  /\ loc' = [loc EXCEPT ![w] = IterationEnd("error")]
  /\ UNCHANGED <<settings, data_updates, current_data, review, processing, running, closed, failures, delays, db_calls, call_state, queue,
                 active, rooms, clock>>

\* a Redis command of the Worker raises (connection lost or closed): inside
\* the try block of dispatch_call the exception goes to _handle_failure with
\* str(e) as the reason, like one raised by the gateway; anywhere else it
\* reaches the except of the loop, which sleeps POLL_INTERVAL
StoreError(w) ==
  /\ pc[w] \in RedisSteps
  /\ IF pc[w] \in {"d_status", "d_sadd", "d_hroom"}
     THEN /\ pc' = [pc EXCEPT ![w] = "h_load"]
          /\ \E e \in ErrorMessages : loc' = [loc EXCEPT ![w].reason = e]
     ELSE /\ pc' = [pc EXCEPT ![w] = "sleep"]
          /\ loc' = [loc EXCEPT ![w] = IterationEnd("error")]
  /\ UNCHANGED <<settings, data_updates, current_data, review, processing, running, closed, failures, delays, db_calls, call_state, queue,
                 active, rooms, clock>>

\* ----------------------------------------------------------------- time
\* time passes between two operations
Tick ==
  /\ clock < MaxClock
  /\ clock' = clock + 1
  /\ UNCHANGED <<settings, data_updates, current_data, review, processing, running, closed, failures, delays, db_calls, call_state, queue, active, rooms,
                 pc, loc>>

\* ------------------------------------------------------------ specifications
OrchestratorStep(p) ==
  \/ DispatchLoad(p)
  \/ DispatchGetSpecialist(p)
  \/ DispatchInvalid(p)
  \/ DispatchCreateRoom(p)
  \/ DispatchCreateSip(p)
  \/ DispatchSetStatus(p)
  \/ DispatchSAdd(p)
  \/ DispatchSetRoom(p)
  \/ DispatchDbUpdate(p)
  \/ FailureLoad(p)
  \/ FailureRequeueHSet(p)
  \/ FailureZAdd(p)
  \/ FailureTerminalHSet(p)
  \/ FailureDbUpdate(p)

WorkerStep(w) ==
  \/ GetNextScard(w)
  \/ GetNextPop(w)
  \/ GetNextLoad(w)
  \/ Sleep(w)

SessionStep(s) ==
  \/ CallCompletedHSet(s)
  \/ CallCompletedSRem(s)
  \/ CallCompletedDb(s)
  \/ CallFailedSRem(s)

ProcessorStep(d) ==
  \/ ProcessSelect(d)
  \/ ProcessCheckExisting(d)
  \/ ProcessMarkExisting(d)
  \/ ProcessMarkExistingLost(d)
  \/ ProcessGetSpecialist(d)
  \/ ProcessExtract(d)
  \/ AutoApplyInsert(d)
  \/ AutoApplyReadSpecialist(d)
  \/ AutoApplyWriteSpecialist(d)
  \/ ProcessQueueReview(d)
  \/ ProcessMarkDone(d)
  \/ ProcessMarkDoneLost(d)
  \/ ProcessVerify(d)
  \/ ProcessError(d)
  \/ ProcessSleep(d)

\* one Scheduler Worker and the clients of the REST interface
Next ==
  \/ \E w \in Workers : WorkerStep(w)
  \/ \E c \in Clients : ClientSchedule(c)
  \/ \E c \in Clients : ClientInitiate(c)
  \/ \E c \in Clients : ScheduleHSet(c)
  \/ \E c \in Clients : ScheduleZAdd(c)
  \/ \E p \in Workers \cup Clients : OrchestratorStep(p)

Spec == Init /\ [][Next]_vars

\* the callers that dispatch the call they have just scheduled, on their
\* own: POST /calls/initiate and scripts/make_call.py
NextDirect ==
  \/ \E c \in Clients : ClientInitiate(c)
  \/ \E c \in Clients : ClientMakeCall(c)
  \/ \E c \in Clients : ScheduleHSet(c)
  \/ \E c \in Clients : ScheduleZAdd(c)
  \/ \E p \in Clients : OrchestratorStep(p)

SpecDirect == Init /\ [][NextDirect]_vars

\* the voice sessions of the calls the clients dispatch themselves report
\* their outcome: no Worker, one signal per session
NextSignals ==
  \/ \E c \in Clients : ClientInitiate(c)
  \/ \E c \in Clients : ScheduleHSet(c)
  \/ \E c \in Clients : ScheduleZAdd(c)
  \/ \E p \in Clients \cup SessionsTwo : OrchestratorStep(p)
  \/ \E s \in SessionsTwo : SessionStep(s)

SpecSignals == Init /\ [][NextSignals]_vars

\* the data processor working on the calls one session completes, until it
\* is asked to stop
NextProcessing ==
  \/ \E c \in Clients : ClientInitiate(c)
  \/ \E c \in Clients : ScheduleHSet(c)
  \/ \E c \in Clients : ScheduleZAdd(c)
  \/ \E p \in Clients \cup Sessions : OrchestratorStep(p)
  \/ \E s \in Sessions : SessionStep(s)
  \/ \E d \in Processors : ProcessorStep(d)
  \/ \E d \in Processors : ProcessorStop(d)

SpecProcessing == Init /\ [][NextProcessing]_vars

\* two Scheduler Workers and clients that only schedule: every dispatch goes
\* through get_next_call
NextTwoWorkers ==
  \/ \E w \in WorkersTwo : WorkerStep(w)
  \/ \E c \in Clients : ClientScheduleDefault(c)
  \/ \E c \in Clients : ScheduleHSet(c)
  \/ \E c \in Clients : ScheduleZAdd(c)
  \/ \E p \in WorkersTwo : OrchestratorStep(p)

SpecTwoWorkers == Init /\ [][NextTwoWorkers]_vars

\* the recommended deployment: a single Scheduler Worker and clients that
\* only schedule
NextOneWorker ==
  \/ \E w \in Workers : WorkerStep(w)
  \/ \E c \in Clients : ClientSchedule(c)
  \/ \E c \in Clients : ScheduleHSet(c)
  \/ \E c \in Clients : ScheduleZAdd(c)
  \/ \E p \in Workers : OrchestratorStep(p)

SpecOneWorker == Init /\ [][NextOneWorker]_vars

\* the same deployment with max_retry_attempts at its default: a call can go
\* through every step of the backoff series
SpecDefaultRetries == InitDefaultRetries /\ [][NextOneWorker]_vars

\* one Scheduler Worker dispatching scheduled calls and one voice session
\* that reports the outcome of the call of a room, once, at any time after
\* the room was created
NextLifecycle ==
  \/ \E w \in Workers : WorkerStep(w)
  \/ \E c \in Clients : ClientScheduleDefault(c)
  \/ \E c \in Clients : ScheduleHSet(c)
  \/ \E c \in Clients : ScheduleZAdd(c)
  \/ \E p \in Workers \cup Sessions : OrchestratorStep(p)
  \/ \E s \in Sessions : CallCompletedHSet(s)
  \/ \E s \in Sessions : CallCompletedSRem(s)
  \/ \E s \in Sessions : CallCompletedDb(s)
  \/ \E s \in Sessions : CallFailedSRem(s)

SpecLifecycle == Init /\ [][NextLifecycle]_vars

\* the same with the Worker's loop always running on: start() only leaves
\* its loop on stop(); the voice session is free never to report
SpecLifecycleFair ==
  /\ Init
  /\ [][NextLifecycle]_vars
  /\ WF_vars(\E w \in Workers : WorkerStep(w) \/ OrchestratorStep(w))

\* one Worker draining the queue: its loop runs on, a schedule_call under
\* way is finished and so is a report under way; the voice session is free
\* to report or not
SpecDrainFair ==
  /\ Init
  /\ [][NextLifecycle]_vars
  /\ WF_vars(\E w \in Workers : WorkerStep(w) \/ OrchestratorStep(w))
  /\ WF_vars(\E c \in Clients : ScheduleHSet(c) \/ ScheduleZAdd(c))
  /\ WF_vars(\E s \in Sessions :
               CallCompletedSRem(s) \/ CallCompletedDb(s) \/ OrchestratorStep(s))

\* the stores as two calls leave them that POST /calls/initiate dispatched
\* one after the other and whose voice sessions reported them completed, the
\* first one first, each with a transcript or with none
ReportedCalls == {id \in CallIds : Rank(id) <= 2}
ReportedRow(id, transcript) ==
  [status |-> COMPLETED, specialist_id |-> "sp_ok", direction |-> "outbound",
   created_at |-> 1, retry_count |-> 0, transcript |-> transcript,
   ended_at |-> Rank(id), failure_reason |-> "null",
   livekit_room_id |-> RoomName(id)]
ReportedState(id) ==
  [status |-> COMPLETED, specialist_id |-> "sp_ok", retry_count |-> "0",
   call_id |-> id, metadata |-> "{}", scheduled_at |-> "ts",
   livekit_room |-> RoomName(id)]

\* the state the data processor is started in once both calls are reported
InitReported ==
  /\ settings \in [max_concurrent_calls : {MaxConcurrent},
                   max_retry_attempts : {0, MaxRetry}]
  /\ \E transcript \in [ReportedCalls -> Transcripts] :
       db_calls = [id \in CallIds |->
                     IF id \in ReportedCalls
                     THEN ReportedRow(id, transcript[id]) ELSE NoRow]
  /\ call_state = [id \in CallIds |->
                     IF id \in ReportedCalls THEN ReportedState(id)
                     ELSE EmptyHash]
  /\ queue = [id \in ReportedCalls |-> 10]
  /\ active = {}
  /\ rooms = {RoomName(id) : id \in ReportedCalls}
  /\ clock = 3
  /\ failures = [id \in CallIds |-> 0]
  /\ delays = [id \in CallIds |-> << >>]
  /\ running = [w \in WorkersTwo \cup Processors |-> TRUE]
  /\ closed = [w \in WorkersTwo |-> FALSE]
  /\ data_updates = [u \in UpdateIds |-> NoUpdate]
  /\ current_data = [sid \in DOMAIN SpecialistPhone |-> EmptyHash]
  /\ review = [r \in Reviewers |-> NoReview]
  /\ processing = [d \in Processors |-> NoProcessing]
  /\ pc = [p \in Procs |-> IF p \in WorkersTwo THEN "poll"
                           ELSE IF p \in SessionsTwo THEN "done" ELSE "idle"]
  /\ loc = [p \in Procs |-> NoLoc]

\* the data processor alone
NextProcessor == \E d \in Processors : ProcessorStep(d)

\* the data processor working on the reported calls: its loop keeps polling,
\* its selects and its updates of the calls table succeed in the end
SpecProcessorFair ==
  /\ InitReported
  /\ [][NextProcessor]_vars
  /\ WF_vars(\E d \in Processors : ProcessorStep(d))
  /\ SF_vars(\E d \in Processors : ProcessSelect(d))
  /\ SF_vars(\E d \in Processors : ProcessCheckExisting(d))
  /\ SF_vars(\E d \in Processors : ProcessMarkExisting(d))
  /\ SF_vars(\E d \in Processors : ProcessMarkDone(d))

\* the same Worker and session with a durable store whose updates can fail
NextDurableFaults ==
  \/ NextLifecycle
  \/ \E w \in Workers : DispatchDbUpdateLost(w)
  \/ \E s \in Sessions : CallCompletedDbLost(s)
  \/ \E p \in Workers \cup Sessions : FailureDbUpdateLost(p)

SpecDurableFaults == Init /\ [][NextDurableFaults]_vars

\* a single Scheduler Worker that is asked to stop; the Redis commands it
\* issues after stop() has closed the connection can fail
NextShutdown ==
  \/ \E w \in Workers : WorkerStep(w)
  \/ \E c \in Clients : ClientScheduleDefault(c)
  \/ \E c \in Clients : ScheduleHSet(c)
  \/ \E c \in Clients : ScheduleZAdd(c)
  \/ \E p \in Workers : OrchestratorStep(p)
  \/ \E w \in Workers : Stop(w)
  \/ \E w \in Workers : StoreError(w) /\ closed[w]

SpecShutdown == Init /\ [][NextShutdown]_vars

\* a single Scheduler Worker whose Redis commands can fail at any time
NextFaults ==
  \/ \E w \in Workers : WorkerStep(w)
  \/ \E c \in Clients : ClientScheduleDefault(c)
  \/ \E c \in Clients : ScheduleHSet(c)
  \/ \E c \in Clients : ScheduleZAdd(c)
  \/ \E p \in Workers : OrchestratorStep(p)
  \/ \E w \in Workers : StoreError(w)

SpecFaults == Init /\ [][NextFaults]_vars

\* one Scheduler Worker draining a queue filled over time with calls of any
\* accepted priority
NextOrdering ==
  \/ \E w \in Workers : WorkerStep(w)
  \/ \E c \in Clients : ClientScheduleAny(c)
  \/ \E c \in Clients : ScheduleHSet(c)
  \/ \E c \in Clients : ScheduleZAdd(c)
  \/ \E p \in Workers : OrchestratorStep(p)
  \/ Tick

SpecOrdering == Init /\ [][NextOrdering]_vars

\* the review queue filled by the processing pipeline and worked through by
\* a reviewer calling POST /review/{id}/approve and /review/{id}/reject
NextReview ==
  \/ \E c \in CallIds, sid \in SpecialistIds, f \in FieldNames, v \in NewValues :
       QueueForReview(c, sid, f, v)
  \/ \E r \in Reviewers : ReviewerStep(r)

SpecReview == Init /\ [][NextReview]_vars

\* ------------------------------------------------------------------ claims
StatusOf(cs, id) == HGet(cs[id], "status", "none")
RetryCountOf(cs, id) == ParseInt(HGet(cs[id], "retry_count", "0"))

\* C1: no call id is at the same time a member of the priority queue and of
\* the active set, whatever path dispatched it
C1_QueueActiveDisjoint ==
  \A id \in CallIds : ~(id \in DOMAIN queue /\ id \in active)

\* C2: get_next_call pops the queue only after reading an active count
\* strictly below max_concurrent_calls; when the count is at or above the
\* limit it returns Empty and leaves the queue as it was
C2_GateBeforePop ==
  [][\A w \in WorkersTwo :
       /\ (pc[w] = "poll" /\ pc'[w] # "poll") =>
            IF Cardinality(active) >= settings.max_concurrent_calls
            THEN pc'[w] = "sleep" /\ loc'[w].ret = "limit" /\ queue' = queue
            ELSE pc'[w] = "g_pop" /\ queue' = queue
       /\ (pc[w] = "g_pop" /\ pc'[w] # "g_pop") =>
            loc[w].active_count < settings.max_concurrent_calls
       /\ (pc'[w] = "d_load" /\ pc[w] # "d_load") => pc[w] = "g_load"]_vars

C2_GateClosedWithWaitingCall ==
  \E w \in WorkersTwo :
    /\ pc[w] = "sleep"
    /\ loc[w].ret = "limit"
    /\ DOMAIN queue # {}
    /\ Cardinality(active) >= settings.max_concurrent_calls

\* C3: in the state right after get_next_call has returned a call, the
\* active set holds at most max_concurrent_calls members
C3_DequeueWithinLimit ==
  [][\A w \in Workers :
       (pc[w] = "g_load" /\ pc'[w] = "d_load") =>
          Cardinality(active') <= settings.max_concurrent_calls]_vars

\* C4: with one Worker, the active set never holds more than
\* max_concurrent_calls members, the REST initiate path included
C4_ActiveWithinLimit ==
  Cardinality(active) <= settings.max_concurrent_calls

\* C5: two Workers can take the active set above max_concurrent_calls, and
\* only through the window between the count read and the add: the members
\* of the active set and the Workers that are past the gate and have not yet
\* added their call are together at most max_concurrent_calls plus the one
\* racing Worker
PastGate(w) ==
  pc[w] \in {"g_pop", "g_load", "d_load", "d_spec", "d_room", "d_sip",
             "d_status", "d_sadd"}

C5_ExcessOnlyByRace ==
  Cardinality(active) + Cardinality({w \in WorkersTwo : PastGate(w)})
    <= settings.max_concurrent_calls + Cardinality(WorkersTwo) - 1

C5_ActiveAboveLimit ==
  Cardinality(active) > settings.max_concurrent_calls

\* C6: retry_count never decreases, in the CallState and in the durable
\* record, and is at most max_retry_attempts while the call is not FAILED
C6_RetryCountMonotone ==
  [][\A id \in CallIds :
       /\ RetryCountOf(call_state', id) >= RetryCountOf(call_state, id)
       /\ db_calls'[id].retry_count >= db_calls[id].retry_count
       /\ StatusOf(call_state', id) # FAILED =>
            RetryCountOf(call_state', id) <= settings.max_retry_attempts
       /\ db_calls'[id].status # FAILED =>
            db_calls'[id].retry_count <= settings.max_retry_attempts]_vars

\* C7: the status of a call moves only QUEUED -> DISPATCHED ->
\* {COMPLETED, QUEUED, FAILED} (a dispatch that fails before the call is
\* placed may take QUEUED to FAILED); nothing leaves COMPLETED or FAILED and
\* nothing becomes COMPLETED that was not DISPATCHED
StatusMoves ==
  {<<"none", QUEUED>>, <<QUEUED, DISPATCHED>>, <<QUEUED, FAILED>>,
   <<DISPATCHED, COMPLETED>>, <<DISPATCHED, QUEUED>>, <<DISPATCHED, FAILED>>}

C7_StatusTransitions ==
  [][\A id \in CallIds :
       \/ StatusOf(call_state', id) = StatusOf(call_state, id)
       \/ <<StatusOf(call_state, id), StatusOf(call_state', id)>> \in StatusMoves]_vars

\* C8: of a completion and a failure signal for the same call the first
\* terminal transition wins: a signal handled for a call that is already
\* COMPLETED or FAILED neither changes its status nor puts it in the queue
C8_FirstTerminalWins ==
  [][\A s \in SessionsTwo :
       (pc[s] # "idle" /\ pc'[s] # pc[s]
        /\ StatusOf(call_state, loc[s].id) \in {COMPLETED, FAILED}) =>
          /\ StatusOf(call_state', loc[s].id) = StatusOf(call_state, loc[s].id)
          /\ (loc[s].id \in DOMAIN queue' => loc[s].id \in DOMAIN queue)]_vars

\* C9: a call_completed for a call whose durable record is already COMPLETED
\* leaves that record (status, ended_at, transcript) as it was and the
\* active set without the call
C9_CompletedIdempotent ==
  [][\A s \in SessionsTwo :
       (pc[s] = "c_db" /\ pc'[s] = "done"
        /\ db_calls[loc[s].id].status = COMPLETED) =>
          /\ db_calls'[loc[s].id] = db_calls[loc[s].id]
          /\ loc[s].id \notin active']_vars

\* C10: every CallState whose status is DISPATCHED has a non-empty session
\* (room) identifier, in every state another operation can observe
C10_DispatchedHasRoom ==
  \A id \in CallIds :
    StatusOf(call_state, id) = DISPATCHED =>
      HGet(call_state[id], "livekit_room", "") # ""

\* C11: with max_retry_attempts = N, the k-th failure of a call, k <= N,
\* requeues it with retry_count k, and the retry procedure makes a call
\* FAILED at its (N+1)-th failure and not before, with retry_count N and the
\* reason of that failure as failure_reason
C11_RetryLadder ==
  [][\A p \in Procs :
       LET id == loc[p].id
           N == settings.max_retry_attempts
       IN /\ (pc[p] = "h_requeue" /\ pc'[p] = "h_zadd") =>
               /\ failures[id] <= N
               /\ RetryCountOf(call_state', id) = failures[id]
               /\ StatusOf(call_state', id) = QUEUED
          /\ (pc[p] = "h_failed" /\ pc'[p] = "h_db") =>
               /\ failures[id] >= N + 1
               /\ StatusOf(call_state', id) = FAILED
               /\ RetryCountOf(call_state', id) = N
               /\ HGet(call_state'[id], "failure_reason", "") = loc[p].reason]_vars

\* C12: a retry procedure that finds retry_count >= max_retry_attempts leaves
\* the call FAILED in the CallState and in the durable record, with the given
\* reason and the final retry_count, and a call that is durably FAILED has no
\* queue entry from then on
C12_TerminalFailure ==
  [][/\ \A p \in Procs :
          LET id == loc[p].id
          IN (pc[p] = "h_db" /\ pc'[p] # "h_db") =>
               /\ StatusOf(call_state', id) = FAILED
               /\ HGet(call_state'[id], "failure_reason", "") = loc[p].reason
               /\ db_calls'[id].status = FAILED
               /\ db_calls'[id].failure_reason = loc[p].reason
               /\ db_calls'[id].retry_count = RetryCountOf(call_state', id)
               /\ id \notin DOMAIN queue'
     /\ \A id \in CallIds :
          db_calls'[id].status = FAILED => id \notin DOMAIN queue']_vars

\* C13: a retry procedure that finds retry_count < max_retry_attempts raises
\* the stored retry_count by exactly one, sets the status QUEUED, records the
\* reason as last_failure and inserts a queue entry scored minus the new
\* retry_count
C13_RequeueStep ==
  [][\A p \in Procs :
       LET id == loc[p].id
       IN /\ (pc[p] = "h_load" /\ pc'[p] # "h_load"
              /\ RetryCountOf(call_state, id) < settings.max_retry_attempts) =>
               pc'[p] = "h_requeue"
          /\ (pc[p] = "h_requeue" /\ pc'[p] = "h_zadd") =>
               /\ RetryCountOf(call_state', id) = RetryCountOf(call_state, id) + 1
               /\ StatusOf(call_state', id) = QUEUED
               /\ "last_failure" \in DOMAIN call_state'[id]
               /\ call_state'[id].last_failure = loc[p].reason
          /\ (pc[p] = "h_zadd" /\ pc'[p] # "h_zadd") =>
               /\ id \in DOMAIN queue'
               /\ queue'[id] = -RetryCountOf(call_state', id)
               /\ StatusOf(call_state', id) = QUEUED]_vars

C13_RetryWaitingInQueue ==
  \E id \in CallIds :
    /\ id \in DOMAIN queue
    /\ queue[id] = -1
    /\ RetryCountOf(call_state, id) = 1
    /\ StatusOf(call_state, id) = QUEUED
    /\ HGet(call_state[id], "last_failure", "") = "gateway_error"

\* C14: a requeued retry has a strictly lower score than every fresh
\* (never-failed) queue entry, whatever priority the fresh call was scheduled
\* with
C14_RetryBelowFresh ==
  \A x \in DOMAIN queue : \A y \in DOMAIN queue :
    (failures[x] > 0 /\ failures[y] = 0) => queue[x] < queue[y]

\* C15: with capacity available get_next_call returns the queue entry of the
\* highest score: no entry left in the queue has a higher score than the one
\* popped, in whatever order the calls were scheduled
C15_PopHighestScore ==
  [][\A w \in WorkersTwo :
       (pc[w] = "g_pop" /\ pc'[w] = "g_load") =>
          /\ loc[w].active_count < settings.max_concurrent_calls
          /\ loc'[w].id \in DOMAIN queue
          /\ loc'[w].priority = queue[loc'[w].id]
          /\ \A y \in DOMAIN queue : queue[y] <= queue[loc'[w].id]
          /\ DOMAIN queue' = DOMAIN queue \ {loc'[w].id}
          /\ \A y \in DOMAIN queue' : queue'[y] = queue[y]]_vars

C15_HigherPoppedFirst ==
  \E w \in WorkersTwo :
    /\ pc[w] = "g_load"
    /\ loc[w].priority = 10
    /\ \E y \in DOMAIN queue : queue[y] = 0 /\ Rank(y) > Rank(loc[w].id)

\* C16: among queue entries of equal score get_next_call returns the
\* earliest-created call first
C16_FifoAmongTies ==
  [][\A w \in Workers :
       (pc[w] = "g_pop" /\ pc'[w] = "g_load") =>
          \A y \in DOMAIN queue :
            queue[y] = queue[loc'[w].id] =>
              db_calls[loc'[w].id].created_at <= db_calls[y].created_at]_vars

\* C17: a successful schedule_call creates exactly one durable record, with
\* status QUEUED, and returns with a CallState of status QUEUED, retry_count 0
\* and the given specialist_id and one queue entry scored with the given
\* priority; the active set is left alone and the specialist is not looked up
C17_ScheduleEffects ==
  [][\A c \in Clients :
       /\ (pc[c] = "idle" /\ pc'[c] = "s_hset") =>
            /\ db_calls[loc'[c].id].status = "none"
            /\ db_calls'[loc'[c].id].status = QUEUED
            /\ db_calls'[loc'[c].id].specialist_id = loc'[c].specialist_id
            /\ \A other \in CallIds \ {loc'[c].id} :
                 db_calls'[other] = db_calls[other]
            /\ call_state' = call_state /\ queue' = queue /\ active' = active
       /\ (pc[c] = "s_zadd" /\ pc'[c] = "idle") =>
            LET id == loc[c].id
            IN /\ db_calls'[id].status = QUEUED
               /\ db_calls'[id].specialist_id = loc[c].specialist_id
               /\ StatusOf(call_state', id) = QUEUED
               /\ HGet(call_state'[id], "retry_count", "") = "0"
               /\ HGet(call_state'[id], "specialist_id", "") = loc[c].specialist_id
               /\ id \in DOMAIN queue' /\ queue'[id] = loc[c].priority
               /\ DOMAIN queue' = DOMAIN queue \cup {id}
               /\ active' = active /\ id \notin active']_vars

C17_UnknownSpecialistQueued ==
  \E id \in DOMAIN queue :
    /\ HGet(call_state[id], "specialist_id", "") = "sp_missing"
    /\ StatusOf(call_state, id) = QUEUED
    /\ db_calls[id].status = QUEUED
    /\ queue[id] = 10
    /\ id \notin active
    /\ \A c \in Clients : pc[c] = "idle"

\* C18: when the durable record cannot be created schedule_call raises and
\* writes nothing: the stores are as they were, and a CallState or a queue
\* entry is only ever written for a call whose record exists
C18_CreateFailureLeavesStores ==
  [][\A c \in Clients :
       /\ (pc[c] = "idle" /\ loc'[c] # loc[c] /\ db_calls' = db_calls) =>
            /\ pc'[c] = "idle"
            /\ loc'[c].ret = "RuntimeError"
            /\ call_state' = call_state /\ queue' = queue /\ active' = active
       /\ (pc[c] \in {"s_hset", "s_zadd"} /\ pc'[c] # pc[c]) =>
            db_calls[loc[c].id].status # "none"]_vars

C18_ScheduleRaised ==
  \E c \in Clients :
    /\ pc[c] = "idle"
    /\ loc[c].ret = "RuntimeError"
    /\ \A id \in CallIds :
         db_calls[id].status = "none" =>
           (call_state[id] = EmptyHash /\ id \notin DOMAIN queue)

\* C19: dispatch_call for a call whose specialist has no phone number or no
\* record places nothing with the gateway, marks the call FAILED, leaves
\* retry_count, the queue, the active set and the durable record alone and
\* returns failure, and so does every dispatch_call that gets no specialist;
\* a call for such a specialist never had a room, a retry or a place in the
\* active set, and its queue entry is gone
C19_InvalidSpecialistFailsFast ==
  [][\A p \in Procs :
       LET id == loc[p].id
       IN /\ (pc[p] = "d_spec" /\ pc'[p] # "d_spec"
              /\ loc[p].specialist_id \in {"sp_nophone", "sp_missing"}) =>
               pc'[p] = "d_invalid" /\ rooms' = rooms
          /\ (pc[p] = "d_spec" /\ pc'[p] = "d_invalid") =>
               /\ rooms' = rooms /\ failures' = failures
               /\ call_state' = call_state /\ queue' = queue
               /\ active' = active
          /\ (pc[p] = "d_invalid" /\ pc'[p] # "d_invalid") =>
               /\ StatusOf(call_state', id) = FAILED
               /\ HGet(call_state'[id], "failure_reason", "")
                    \in {"Specialist not found", "No phone number"}
               /\ HGet(call_state'[id], "retry_count", "")
                    = HGet(call_state[id], "retry_count", "")
               /\ failures' = failures
               /\ queue' = queue
               /\ active' = active
               /\ rooms' = rooms
               /\ db_calls' = db_calls
               /\ pc'[p] = "sleep" /\ loc'[p].ret = "dispatch_failed"
               /\ HGet(call_state[id], "specialist_id", "")
                     \in {"sp_nophone", "sp_missing"} =>
                    /\ failures[id] = 0
                    /\ HGet(call_state'[id], "retry_count", "") = "0"
                    /\ id \notin DOMAIN queue'
                    /\ id \notin active'
                    /\ ("verify-" \o id) \notin rooms']_vars

C19_FailedWithoutRetry ==
  \E id \in CallIds :
    /\ StatusOf(call_state, id) = FAILED
    /\ HGet(call_state[id], "failure_reason", "") = "No phone number"
    /\ HGet(call_state[id], "retry_count", "") = "0"
    /\ settings.max_retry_attempts > 0
    /\ id \notin DOMAIN queue
    /\ id \notin active
    /\ \E w \in WorkersTwo : pc[w] = "sleep" /\ loc[w].ret = "dispatch_failed"

\* C20: once the gateway has accepted the call, dispatch_call returns success
\* with the CallState and the durable record DISPATCHED, the call in the
\* active set, and the session identifier "verify-" + call_id persisted in
\* both
C20_DispatchSuccess ==
  [][\A p \in Procs :
       LET id == loc[p].id
       IN /\ (pc[p] \in {"d_status", "d_sadd", "d_hroom"} /\ pc'[p] # pc[p]) =>
               pc'[p] \in {"d_sadd", "d_hroom", "d_db"}
          /\ (pc[p] = "d_db" /\ pc'[p] # "d_db") =>
               /\ pc'[p] = "sleep" /\ loc'[p].ret = "dispatched"
               /\ StatusOf(call_state', id) = DISPATCHED
               /\ db_calls'[id].status = DISPATCHED
               /\ id \in active'
               /\ HGet(call_state'[id], "livekit_room", "") = "verify-" \o id
               /\ db_calls'[id].livekit_room_id = "verify-" \o id
               /\ ("verify-" \o id) \in rooms']_vars

C20_Dispatched ==
  \E w \in WorkersTwo : \E id \in active :
    /\ pc[w] = "sleep" /\ loc[w].ret = "dispatched"
    /\ StatusOf(call_state, id) = DISPATCHED
    /\ db_calls[id].status = DISPATCHED
    /\ HGet(call_state[id], "livekit_room", "") = "verify-" \o id
    /\ db_calls[id].livekit_room_id = "verify-" \o id

\* C21: when the gateway refuses the room or the dial, dispatch_call runs the
\* retry procedure once for the call (requeued with retry_count one higher,
\* or FAILED when no retry remains) and returns failure with the call out of
\* the active set
C21_GatewayFailureRetriedOnce ==
  [][\A p \in Procs :
       LET id == loc[p].id
           dispatching == loc[p].op = "dispatch_call"
       IN /\ (pc[p] = "d_room" /\ pc'[p] \notin {"d_room", "d_sip"}) =>
               pc'[p] = "h_load" /\ id \notin active' /\ failures' = failures
          /\ (pc[p] = "d_sip" /\ pc'[p] \notin {"d_sip", "d_status"}) =>
               pc'[p] = "h_load" /\ id \notin active' /\ failures' = failures
          /\ (dispatching /\ pc[p] = "h_load" /\ pc'[p] # "h_load") =>
               /\ failures'[id] = failures[id] + 1
               /\ pc'[p] = IF RetryCountOf(call_state, id)
                                < settings.max_retry_attempts
                           THEN "h_requeue" ELSE "h_failed"
          /\ (dispatching /\ pc[p] \in {"h_requeue", "h_failed"}
              /\ pc'[p] # pc[p]) =>
               pc'[p] \in {"h_zadd", "h_db"} /\ failures' = failures
          /\ (dispatching /\ pc[p] = "h_zadd" /\ pc'[p] # "h_zadd") =>
               /\ loc'[p].ret = "dispatch_failed"
               /\ failures' = failures
               /\ id \notin active'
               /\ id \in DOMAIN queue'
               /\ StatusOf(call_state', id) = QUEUED
               /\ RetryCountOf(call_state', id) = failures[id]
          /\ (dispatching /\ pc[p] = "h_db" /\ pc'[p] # "h_db") =>
               /\ loc'[p].ret = "dispatch_failed"
               /\ failures' = failures
               /\ id \notin active'
               /\ id \notin DOMAIN queue'
               /\ StatusOf(call_state', id) = FAILED
               /\ db_calls'[id].status = FAILED
               /\ failures[id] = settings.max_retry_attempts + 1]_vars

C21_DialRefusedAndRequeued ==
  \E w \in Workers : \E id \in DOMAIN queue :
    /\ pc[w] = "sleep" /\ loc[w].ret = "dispatch_failed"
    /\ RoomName(id) \in rooms
    /\ failures[id] = 1
    /\ RetryCountOf(call_state, id) = 1
    /\ id \notin active

\* C22: call_completed(id, transcript), the empty transcript included, leaves
\* the call COMPLETED in the CallState and in the durable record, the
\* durable record holding ended_at and the transcript, and id out of the
\* active set; the removal changes nothing else in the active set
C22_CallCompleted ==
  [][\A s \in SessionsTwo :
       LET id == loc[s].id
       IN /\ (pc[s] = "idle" /\ pc'[s] = "c_srem") =>
               StatusOf(call_state', loc'[s].id) = COMPLETED
          /\ (pc[s] = "c_srem" /\ pc'[s] # "c_srem") =>
               pc'[s] = "c_db" /\ active' = active \ {id}
          /\ (pc[s] = "c_db" /\ pc'[s] # "c_db") =>
               /\ pc'[s] = "done"
               /\ StatusOf(call_state', id) = COMPLETED
               /\ db_calls'[id].status = COMPLETED
               /\ db_calls'[id].transcript = loc[s].transcript
               /\ db_calls'[id].ended_at = clock /\ clock > 0
               /\ id \notin active']_vars

\* C23: call_failed(id, reason) takes id out of the active set before its
\* first retry step; id stays out of the active set through every step of
\* the retry procedure, and at the return the call is requeued with
\* retry_count one higher or FAILED in both stores
C23_CallFailed ==
  [][\A s \in SessionsTwo :
       LET id == loc[s].id
           failing == loc[s].op = "call_failed"
       IN /\ (pc[s] = "idle" /\ pc'[s] = "h_load") =>
               /\ loc'[s].id \notin active'
               /\ queue' = queue /\ call_state' = call_state
               /\ failures' = failures
          /\ (failing /\ pc[s] \in {"h_load", "h_requeue", "h_zadd",
                                     "h_failed", "h_db"}) =>
               id \notin active /\ id \notin active'
          /\ (failing /\ pc[s] = "h_zadd" /\ pc'[s] # "h_zadd") =>
               /\ pc'[s] = "done"
               /\ id \in DOMAIN queue'
               /\ StatusOf(call_state', id) = QUEUED
               /\ RetryCountOf(call_state', id) = failures[id]
               /\ failures[id] <= settings.max_retry_attempts
          /\ (failing /\ pc[s] = "h_db" /\ pc'[s] # "h_db") =>
               /\ pc'[s] = "done"
               /\ id \notin DOMAIN queue'
               /\ StatusOf(call_state', id) = FAILED
               /\ db_calls'[id].status = FAILED
               /\ failures[id] = settings.max_retry_attempts + 1]_vars

\* a call whose dispatch succeeded and for which no outcome report has begun:
\* every session has yet to report or is reporting another call
DispatchedNoReport(id) ==
  /\ StatusOf(call_state, id) = DISPATCHED
  /\ db_calls[id].status = DISPATCHED
  /\ \A s \in SessionsTwo :
       pc[s] = "idle" \/ (pc[s] # "done" /\ loc[s].id # id)

\* a call that was dispatched successfully at some time
EverDispatched(id) == db_calls[id].livekit_room_id # "null"

\* C24 as stated: with max_concurrent_calls = 1, once a call has been
\* dispatched successfully every get_next_call returns Empty and leaves the
\* queue alone while that call is neither COMPLETED nor FAILED
C24_GateUntilTerminal ==
  [][\A w \in Workers :
       (/\ pc[w] = "poll" /\ pc'[w] # "poll"
        /\ settings.max_concurrent_calls = 1
        /\ \E id \in CallIds :
             /\ EverDispatched(id)
             /\ StatusOf(call_state, id) \notin {COMPLETED, FAILED}) =>
         /\ pc'[w] = "sleep" /\ loc'[w].ret = "limit"
         /\ queue' = queue]_vars

\* C24, amended: get_next_call returns Empty and leaves the queue alone
\* while max_concurrent_calls calls are DISPATCHED with no outcome report
\* begun; the report of a failure reopens the gate at its first step, with
\* the call still DISPATCHED and later requeued rather than FAILED
C24_GateUntilReport ==
  [][\A w \in Workers :
       (/\ pc[w] = "poll" /\ pc'[w] # "poll"
        /\ Cardinality({id \in CallIds : DispatchedNoReport(id)})
             >= settings.max_concurrent_calls) =>
         /\ pc'[w] = "sleep" /\ loc'[w].ret = "limit"
         /\ queue' = queue]_vars

C24_SecondCallHeldBack ==
  \E w \in Workers : \E x, y \in CallIds :
    /\ pc[w] = "sleep" /\ loc[w].ret = "limit"
    /\ settings.max_concurrent_calls = 1
    /\ DispatchedNoReport(x)
    /\ y \in DOMAIN queue /\ StatusOf(call_state, y) = QUEUED
    /\ failures[y] = 0

\* C25: a member leaves the active set only in the srem of call_completed
\* or of call_failed for that call
C25_OnlyReportsRemove ==
  [][\A id \in CallIds :
       (id \in active /\ id \notin active') =>
         \E s \in SessionsTwo :
           /\ loc'[s].id = id
           /\ \/ loc'[s].op = "call_completed"
                 /\ pc[s] = "c_srem" /\ pc'[s] = "c_db"
              \/ loc'[s].op = "call_failed"
                 /\ pc[s] = "idle" /\ pc'[s] = "h_load"]_vars

C25_ActiveWithoutReport ==
  \E id \in active :
    /\ \A s \in SessionsTwo : pc[s] = "idle"
    /\ \A w \in Workers : pc[w] = "poll"
    /\ \A c \in Clients : pc[c] = "idle"
    /\ db_calls[id].status = DISPATCHED
    /\ DOMAIN queue = {}

\* C26: every call that enters the active set leaves it again, reported or
\* not
C26_ActiveEventuallyLeaves ==
  \A id \in CallIds : (id \in active) ~> (id \notin active)

\* C27 as stated: every dispatch_call the Worker begins, it begins while no
\* stop has been requested
C27_NoDispatchAfterStop ==
  [][\A w \in Workers :
       (pc[w] # "d_load" /\ pc'[w] = "d_load") => running[w]]_vars

\* C27, amended: once stop has been requested the Worker begins no further
\* iteration; it finishes the one in flight, whose dispatch_call may begin
\* after the request, and leaves the loop at the end of its sleep
C27_NoIterationAfterStop ==
  [][\A w \in Workers :
       ~running[w] =>
         /\ ~running'[w]
         /\ pc'[w] = "poll" => pc[w] = "poll"
         /\ pc[w] = "sleep" => pc'[w] \in {"sleep", "stopped"}
         /\ pc[w] = "stopped" => pc'[w] = "stopped"]_vars

C27_StoppedWithCallsWaiting ==
  \E w \in Workers :
    /\ pc[w] = "stopped"
    /\ ~running[w]
    /\ DOMAIN queue # {}
    /\ active # {}

\* C28: the Redis connection is closed only between iterations, and the
\* call an iteration has dequeued is in the active set, back in the queue
\* or FAILED when the iteration ends
C28_DrainBeforeClose ==
  [][\A w \in Workers :
       /\ closed'[w] => pc'[w] \in {"sleep", "stopped"}
       /\ (pc[w] # "sleep" /\ pc'[w] = "sleep" /\ loc[w].id # "") =>
            \/ loc[w].id \in active'
            \/ loc[w].id \in DOMAIN queue'
            \/ StatusOf(call_state', loc[w].id) = FAILED]_vars

\* C29: the Worker goes from one iteration to the next get_next_call only
\* through its sleep: POLL_INTERVAL after an iteration that found no call
\* or raised, DISPATCH_INTERVAL after one that dequeued a call and whose
\* dispatch_call returned; a dispatch_call only begins inside an iteration,
\* so two of them are at least DISPATCH_INTERVAL apart
C29_SleepBetweenIterations ==
  [][\A w \in Workers :
       /\ (pc[w] # "poll" /\ pc'[w] = "poll") =>
            pc[w] = "sleep" /\ loc[w].slept >= DISPATCH_INTERVAL
       /\ (pc[w] # "sleep" /\ pc'[w] = "sleep") =>
            /\ loc'[w].slept =
                 IF loc'[w].ret = "error" THEN POLL_INTERVAL
                 ELSE IF pc[w] \in {"poll", "g_pop", "g_load"}
                      THEN POLL_INTERVAL
                      ELSE DISPATCH_INTERVAL
            /\ loc'[w].slept >= DISPATCH_INTERVAL
       /\ (pc[w] # "d_load" /\ pc'[w] = "d_load") => pc[w] = "g_load"
       /\ (pc[w] # "g_load" /\ pc'[w] = "g_load") => pc[w] = "g_pop"
       /\ (pc[w] # "g_pop" /\ pc'[w] = "g_pop") => pc[w] = "poll"]_vars

C29_SleepsAfterSecondAttempt ==
  \E w \in Workers : \E id \in active :
    /\ pc[w] = "sleep"
    /\ loc[w].ret = "dispatched"
    /\ loc[w].slept = DISPATCH_INTERVAL
    /\ failures[id] = 1

\* C30: whatever is raised inside an iteration, the Worker ends the
\* iteration in its sleep and, while no stop has been requested, goes on to
\* the next get_next_call; it leaves the loop only after a stop
C30_ErrorsDoNotEndLoop ==
  [][\A w \in Workers :
       /\ pc'[w] = "stopped" => ~running[w]
       /\ (pc[w] # "sleep" /\ loc'[w].ret = "error") =>
            pc'[w] = "sleep" /\ running'[w] = running[w]
       /\ (running[w] /\ pc[w] = "sleep" /\ pc'[w] # "sleep") =>
            pc'[w] = "poll"]_vars

C30_SleepingAfterError ==
  \E w \in Workers : \E id \in CallIds :
    /\ pc[w] = "sleep"
    /\ loc[w].ret = "error"
    /\ running[w]
    /\ StatusOf(call_state, id) = QUEUED
    /\ id \notin DOMAIN queue

\* C31: when a Redis write of the retry procedure fails inside dispatch_call,
\* dispatch_call still returns failure to the loop instead of raising
C31_RetryWriteFailureSwallowed ==
  [][\A w \in Workers :
       (/\ loc[w].op = "dispatch_call"
        /\ pc[w] \in {"h_requeue", "h_zadd", "h_failed"}
        /\ pc'[w] = "sleep") =>
         loc'[w].ret = "dispatch_failed"]_vars

\* C32: a durable update that fails in dispatch_call or in call_completed
\* is reported: the operation does not return success with the durable
\* record left as it was
C32_DurableFailureReported ==
  [][\A p \in Procs :
       LET id == loc[p].id
       IN /\ (pc[p] = "d_db" /\ pc'[p] # "d_db"
              /\ db_calls'[id].status # DISPATCHED) =>
               loc'[p].ret # "dispatched"
          /\ (pc[p] = "c_db" /\ pc'[p] # "c_db"
              /\ db_calls'[id].status # COMPLETED) =>
               pc'[p] # "done"]_vars

\* C33: no backoff is waited for: after a failed dispatch the Worker sleeps
\* DISPATCH_INTERVAL, far less than the backoff delay, the gate looks at the
\* active count only, and the pop takes the head of the queue, a retry that
\* has just been requeued included
C33_RetryEligibleAtOnce ==
  [][\A w \in Workers :
       /\ (pc[w] = "sleep" /\ pc'[w] = "poll"
           /\ loc[w].ret = "dispatch_failed") =>
            /\ loc[w].slept = DISPATCH_INTERVAL
            /\ loc[w].slept < 10 * BackoffDelay(0)
       /\ (pc[w] = "poll" /\ pc'[w] # "poll"
           /\ Cardinality(active) < settings.max_concurrent_calls) =>
            pc'[w] = "g_pop"
       /\ (pc[w] = "g_pop" /\ pc'[w] # "g_pop" /\ DOMAIN queue # {}) =>
            /\ pc'[w] = "g_load"
            /\ loc'[w].id = ZMax(queue)
            /\ loc'[w].id \notin DOMAIN queue']_vars

C33_RetryPoppedAgain ==
  \E w \in Workers :
    /\ pc[w] = "g_load"
    /\ loc[w].id \in CallIds
    /\ failures[loc[w].id] = 1
    /\ RetryCountOf(call_state, loc[w].id) = 1
    /\ StatusOf(call_state, loc[w].id) = QUEUED
    /\ clock = 1

\* C34 as stated: the delay computed for a retry is 30 * 4^retry_count
\* seconds with retry_count the value after the increment
C34_BackoffFromNewCount ==
  [][\A p \in Procs :
       (pc[p] = "h_requeue" /\ pc'[p] = "h_zadd") =>
         loc'[p].delay = 30 * Pow(4, loc'[p].retry_count)]_vars

\* C34, amended: the delay is 30 * 4^retry_count seconds with retry_count
\* the value before the increment (30 for the first retry, 120 for the
\* second, 480 for the third); the retry logs that delay once its queue
\* entry is written, and every retry of a call logs a longer delay than
\* the retry of that call before it
C34_BackoffFromOldCount ==
  [][/\ \A p \in Procs :
          LET id == loc[p].id
          IN /\ (pc[p] = "h_requeue" /\ pc'[p] = "h_zadd") =>
                  /\ loc'[p].retry_count = loc[p].retry_count + 1
                  /\ loc'[p].delay = 30 * Pow(4, loc[p].retry_count)
                  /\ loc'[p].retry_count = 1 => loc'[p].delay = 30
                  /\ loc'[p].retry_count = 2 => loc'[p].delay = 120
                  /\ loc'[p].retry_count = 3 => loc'[p].delay = 480
                  /\ delays' = delays
             /\ (pc[p] = "h_zadd" /\ pc'[p] # "h_zadd") =>
                  /\ loc[p].delay = 30 * Pow(4, loc[p].retry_count - 1)
                  /\ delays'[id] = Append(delays[id], loc[p].delay)
                  /\ delays[id] # << >> =>
                       delays[id][Len(delays[id])] < loc[p].delay
     /\ \A id \in CallIds :
          delays'[id] # delays[id] =>
            \E p \in Procs : pc[p] = "h_zadd" /\ loc[p].id = id]_vars

C34_ThreeRetriesLogged ==
  \E id \in CallIds :
    /\ delays[id] = <<30, 120, 480>>
    /\ RetryCountOf(call_state, id) = 3
    /\ id \in DOMAIN queue
    /\ queue[id] = -3
    /\ settings.max_retry_attempts = DEFAULT_MAX_RETRY_ATTEMPTS

\* C35: the Worker never goes on to dispatch a call it has dequeued that is
\* already DISPATCHED, COMPLETED or FAILED, and no two callers are inside
\* dispatch_call for the same call at the same time
C35_PlacedOncePerStay ==
  [][/\ \A w \in Workers :
          (pc[w] = "g_load" /\ pc'[w] = "d_load") =>
            StatusOf(call_state, loc[w].id)
              \notin {DISPATCHED, COMPLETED, FAILED}
     /\ \A p, q \in Workers \cup Clients :
          (/\ p # q
           /\ pc'[p] \in {"d_room", "d_sip", "d_status", "d_sadd", "d_hroom",
                           "d_db"}
           /\ pc'[q] \in {"d_room", "d_sip", "d_status", "d_sadd", "d_hroom",
                           "d_db"}) =>
            loc'[p].id # loc'[q].id]_vars

\* no orchestrator operation is in progress
Quiescent ==
  /\ \A w \in WorkersTwo : pc[w] \in {"poll", "sleep", "stopped"}
  /\ \A p \in Procs \ WorkersTwo : pc[p] \in {"idle", "done"}

\* C36: whenever no operation is in progress, every call that is QUEUED has
\* a queue entry and every call that is DISPATCHED is in the active set
C36_NoCallLost ==
  Quiescent =>
    \A id \in CallIds :
      /\ StatusOf(call_state, id) = QUEUED => id \in DOMAIN queue
      /\ StatusOf(call_state, id) = DISPATCHED => id \in active

\* C38: whenever no operation is in progress, the status and retry_count
\* of the durable record of every call equal those of its CallState
C38_DurableMirrorsCallState ==
  Quiescent =>
    \A id \in CallIds :
      (db_calls[id].status # "none" /\ call_state[id] # EmptyHash) =>
        /\ db_calls[id].status = StatusOf(call_state, id)
        /\ db_calls[id].retry_count = RetryCountOf(call_state, id)

\* C39: every call whose durable record is completed with a non-empty
\* transcript and not yet processed is eventually marked processed, unless
\* a later write takes the record out of that condition
C39_TranscriptEventuallyProcessed ==
  \A id \in CallIds :
    (/\ db_calls[id].status = COMPLETED
     /\ db_calls[id].transcript \notin {"null", ""}
     /\ db_calls[id].retry_count >= 0)
      ~> \/ db_calls[id].retry_count = -1
         \/ db_calls[id].status # COMPLETED
         \/ db_calls[id].transcript \in {"null", ""}

\* C40: a data update's review status only moves from pending to approved or
\* from pending to rejected: an approved update is never marked rejected
\* afterwards, a rejected one never approved, and only an approved update is
\* applied to the specialist record
C40_ReviewStatusMonotone ==
  [][/\ \A u \in UpdateIds :
          /\ data_updates[u].status = "approved"
               => data_updates'[u].status = "approved"
          /\ data_updates[u].status = "rejected"
               => data_updates'[u].status = "rejected"
     /\ \A r \in Reviewers :
          review[r].pc = "a_write" /\ review'[r].pc # "a_write"
            => data_updates[review[r].id].status = "approved"]_vars

\* C37: with no further schedule_call, a fairly scheduled single Worker,
\* working stores and every dispatched call reported, every scheduled call
\* eventually reaches COMPLETED or FAILED, and the queue and the active set
\* eventually become and stay empty
C37_EveryCallSettles ==
  (\A id \in CallIds : []<>(id \notin active))
    => /\ \A id \in CallIds :
            (StatusOf(call_state, id) # "none")
              ~> (StatusOf(call_state, id) \in {COMPLETED, FAILED})
       /\ <>[](DOMAIN queue = {} /\ active = {})

====
